---- MODULE Spec2Model ----
(***************************************************************************)
(* A model of iota101/xlogging: configuration resolution (options.go,      *)
(* env.go), handler chain composition (logger.go), the context-attribute   *)
(* injector (handler.go), the colorized renderer (color.go) and the        *)
(* record-capture sink (mock.go).                                          *)
(*                                                                         *)
(* Text that the code inspects character by character (environment         *)
(* variable values) is a sequence of one-character strings.  Text that the *)
(* code only compares or concatenates (keys, messages) is a TLA+ string.   *)
(* A Go value of type `any` is a tagged record [t, v].                     *)
(***************************************************************************)
EXTENDS Integers, Sequences, FiniteSets, TLC

VARIABLES
    osEnv,      \* process environment: XLOG_ENV, XLOG_LEVEL, terminal probes
    cfg,        \* the *config under construction in New
    applied,    \* names of the Option closures New has applied so far
    newPc,      \* position inside New: "idle", "opts", "built"
    handlers,   \* heap of slog.Handler chains; logger i wraps handlers[i]
    out,        \* the chunks written to the output sink, one per Write call
    wBroken,    \* TRUE when writes to the output sink fail
    last,       \* the most recent Handle call and what it returned
    seen,       \* severities passed to a log method so far
    sink,       \* heap of the capture sink: TestLogger objects, maps, entry stores
    sinkLog,    \* the log calls since the last Clear: number, handle, arguments
    cleared,    \* sequence numbers of the entries a Clear removed
    born,       \* per handle, the attributes and groups it was created with
    mutex,      \* per sync.Mutex, the goroutine holding it (0: unlocked)
    gor,        \* per goroutine, its position inside colorHandler.Handle
    ncalls,     \* Handle calls begun by the goroutines
    input,      \* the argument text of the function under study
    result,     \* what the function returned for it
    held        \* the []LogEntry a caller holds, as Entries returned it

cfgVars == <<osEnv, cfg, applied, newPc>>

chainVars == <<handlers, out, wBroken, last, seen>>

sinkVars == <<sink, sinkLog, cleared>>

procVars == <<mutex, gor, ncalls>>

fnVars == <<input, result, held>>

vars == <<osEnv, cfg, applied, newPc, handlers, out, wBroken, last, seen,
          sink, sinkLog, cleared, born, mutex, gor, ncalls, input, result,
          held>>

----------------------------------------------------------------------------
(* Bounds *)

MaxOpts == 2        \* distinct options passed to one New call
MaxKeys == 2        \* length of a context key list
MaxOut == 2         \* lines the output sink holds
MaxInjected == 1    \* lines written while contexts are enumerated
MaxLoggers == 2     \* loggers alive at once (the root and those derived)
MaxSinkLoggers == 2 \* capture-sink handles alive at once
MaxLogCalls == 3    \* log calls made on the capture sink
MaxDerived == 3     \* capture-sink handles alive when derivations are enumerated
MaxDerivedCalls == 1 \* log calls made while derivations are enumerated
NumGoroutines == 2  \* goroutines calling the colorized renderer
MaxCalls == 2       \* Handle calls the goroutines begin
MaxChain == 3       \* derivations in a row when group paths are enumerated
MaxText == 4        \* length of the level texts enumerated letter by letter
MaxSpare == 2       \* unused capacity of a record's attribute slice
MaxGrowth == 1      \* handles derived and records logged while goroutines contend

----------------------------------------------------------------------------
(* level.go *)

(* no call made yet *)
NoResult == [done |-> FALSE, level |-> 0]

LevelDebug == 0 - 4
LevelInfo == 0
LevelWarn == 4
LevelError == 8

Levels == {LevelDebug, LevelInfo, LevelWarn, LevelError}

(* strings.ToLower on the characters the samples use; "U+0130" stands for   *)
(* the capital I with a dot above, whose lower case is i                    *)
LowerChar(c) ==
    CASE c = "U+0130" -> "i"
      [] c = "D" -> "d" [] c = "E" -> "e" [] c = "B" -> "b" [] c = "U" -> "u"
      [] c = "G" -> "g" [] c = "I" -> "i" [] c = "N" -> "n" [] c = "F" -> "f"
      [] c = "O" -> "o" [] c = "W" -> "w" [] c = "A" -> "a" [] c = "R" -> "r"
      [] c = "P" -> "p" [] c = "S" -> "s" [] c = "T" -> "t" [] c = "V" -> "v"
      [] c = "L" -> "l" [] c = "M" -> "m" [] c = "C" -> "c"
      [] OTHER -> c

ToLower(s) == [i \in 1..Len(s) |-> LowerChar(s[i])]

(* unicode.IsSpace; "U+00A0" stands for the no-break space *)
IsSpace(c) == c \in {" ", "\t", "\n", "\r", "U+00A0"}

RECURSIVE TrimLeft(_)
TrimLeft(s) ==
    IF s # <<>> /\ IsSpace(Head(s)) THEN TrimLeft(Tail(s)) ELSE s

RECURSIVE TrimRight(_)
TrimRight(s) ==
    IF s # <<>> /\ IsSpace(s[Len(s)])
    THEN TrimRight(SubSeq(s, 1, Len(s) - 1))
    ELSE s

TrimSpace(s) == TrimRight(TrimLeft(s))

(* the switch without its "warning" case *)
ParseLevel_WarnOnly(s) ==
    LET v == ToLower(TrimSpace(s)) IN
    CASE v = <<"d", "e", "b", "u", "g">> -> LevelDebug
      [] v = <<"i", "n", "f", "o">> -> LevelInfo
      [] v = <<"w", "a", "r", "n">> -> LevelWarn
      [] v = <<"e", "r", "r", "o", "r">> -> LevelError
      [] OTHER -> LevelInfo

ParseLevel(s) ==
    LET v == ToLower(TrimSpace(s)) IN
    CASE v = <<"d", "e", "b", "u", "g">> -> LevelDebug
      [] v = <<"i", "n", "f", "o">> -> LevelInfo
      [] v = <<"w", "a", "r", "n">> -> LevelWarn
      [] v = <<"w", "a", "r", "n", "i", "n", "g">> -> LevelWarn
      [] v = <<"e", "r", "r", "o", "r">> -> LevelError
      [] OTHER -> LevelInfo

----------------------------------------------------------------------------
(* env.go *)

EnvProduction == "production"
EnvStaging == "staging"
EnvDevelopment == "development"

Envs == {EnvProduction, EnvStaging, EnvDevelopment}

detectEnv(e) ==
    LET val == ToLower(TrimSpace(e.XLOG_ENV)) IN
    CASE val = <<"p", "r", "o", "d", "u", "c", "t", "i", "o", "n">> -> EnvProduction
      [] val = <<"p", "r", "o", "d">> -> EnvProduction
      [] val = <<"s", "t", "a", "g", "i", "n", "g">> -> EnvStaging
      [] val = <<"s", "t", "a", "g", "e">> -> EnvStaging
      [] val = <<"d", "e", "v", "e", "l", "o", "p", "m", "e", "n", "t">> -> EnvDevelopment
      [] val = <<"d", "e", "v">> -> EnvDevelopment
      [] OTHER -> EnvDevelopment

defaultLevelForEnv(env) ==
    CASE env = EnvProduction -> LevelInfo
      [] env \in {EnvStaging, EnvDevelopment} -> LevelDebug
      [] OTHER -> LevelDebug

detectLevel(e, env) ==
    IF e.XLOG_LEVEL # <<>> THEN ParseLevel(e.XLOG_LEVEL)
    ELSE defaultLevelForEnv(env)

isStdoutTerminal(e) == e.stdoutTTY

isStderrTerminal(e) == e.stderrTTY

(* Values of the two environment variables the model draws from. *)
EnvSamples ==
    { <<>>,
      <<"P", "r", "o", "d">>,
      <<" ", "s", "t", "a", "g", "i", "n", "g">>,
      <<"q", "a">> }

LevelSamples ==
    { <<>>,
      <<"W", "A", "R", "N", " ">>,
      <<"v", "e", "r", "b", "o", "s", "e">> }

OsEnvs ==
    [XLOG_ENV : EnvSamples, XLOG_LEVEL : LevelSamples,
     stdoutTTY : BOOLEAN, stderrTTY : BOOLEAN]

----------------------------------------------------------------------------
(* context.go *)

KeyRequestID == "request_id"
KeyTraceID == "trace_id"
KeyUserID == "user_id"

(* Keys a configuration may list. *)
ConfigKeys == {KeyRequestID, KeyTraceID}

RECURSIVE SeqsUpTo(_, _)
SeqsUpTo(S, n) ==
    IF n = 0 THEN {<<>>}
    ELSE LET shorter == SeqsUpTo(S, n - 1) IN
         shorter \cup {Append(q, x) : q \in {p \in shorter : Len(p) = n - 1}, x \in S}

KeyLists == SeqsUpTo(ConfigKeys, MaxKeys)

----------------------------------------------------------------------------
(* options.go *)

Stdout == "os.Stdout"
Stderr == "os.Stderr"
Buffer == "buffer"

Outputs == {Stdout, Stderr, Buffer}

(* *bool: nil, or a pointer to true / false *)
ColorNil == "nil"
ColorOn == "true"
ColorOff == "false"

NoConfig == [env |-> "", level |-> 0, output |-> "", contextKeys |-> <<>>,
             addSource |-> FALSE, useColor |-> ColorNil]

defaultConfig(e) ==
    LET env == detectEnv(e) IN
    [env |-> env,
     level |-> detectLevel(e, env),
     output |-> Stderr,
     contextKeys |-> <<>>,
     addSource |-> FALSE,
     useColor |-> ColorNil]

(* the Production check placed before the override *)
shouldUseColor_ProductionFirst(c, e) ==
    IF c.env = EnvProduction THEN FALSE
    ELSE IF c.useColor # ColorNil THEN c.useColor = ColorOn
    ELSE IF c.output = Stdout THEN isStdoutTerminal(e)
    ELSE IF c.output = Stderr THEN isStderrTerminal(e)
    ELSE FALSE

shouldUseColor(c, e) ==
    IF c.useColor # ColorNil THEN c.useColor = ColorOn
    ELSE IF c.env = EnvProduction THEN FALSE
    ELSE IF c.output = Stdout THEN isStdoutTerminal(e)
    ELSE IF c.output = Stderr THEN isStderrTerminal(e)
    ELSE FALSE

shouldUseJSON(c) == c.env = EnvProduction

----------------------------------------------------------------------------
(* Handlers.  A handler is a record; the injector holds its child by value *)
(* (it owns it exclusively).  The shared parts of a colorized renderer     *)
(* (writer, lock) are named by w and mu.                                   *)

NoHandler == [kind |-> "none"]

(* slog.NewJSONHandler / slog.NewTextHandler: the library's commonHandler. *)
(* pre holds the attributes already formatted by WithAttrs, each under the *)
(* groups open at that time; groups is the open group path.                *)
NewStdHandler(kind, w, level, addSource) ==
    [kind |-> kind, w |-> w, level |-> level, addSource |-> addSource,
     pre |-> <<>>, groups |-> <<>>]

(* color.go: newColorHandler with non-nil options *)
newColorHandler(w, level, addSource, contextKeys) ==
    [kind |-> "color", w |-> w, level |-> level, addSource |-> addSource,
     attrs |-> <<>>, groups |-> <<>>, mu |-> 1, contextKeys |-> contextKeys]

(* handler.go: newContextHandler *)
newContextHandler(inner, keys) ==
    [kind |-> "ctx", inner |-> inner, contextKeys |-> keys]

(* the color branch tested before the JSON branch *)
createHandler_ColorFirst(c, e) ==
    IF shouldUseColor(c, e)
    THEN newColorHandler(c.output, c.level, c.addSource, c.contextKeys)
    ELSE LET baseHandler ==
                 NewStdHandler(IF shouldUseJSON(c) THEN "json" ELSE "text",
                               c.output, c.level, c.addSource) IN
         IF Len(c.contextKeys) > 0
         THEN newContextHandler(baseHandler, c.contextKeys)
         ELSE baseHandler

(* every leaf wrapped by the injector, the colorized one included *)
createHandler_WrapAll(c, e) ==
    LET baseHandler ==
            IF shouldUseJSON(c) THEN NewStdHandler("json", c.output, c.level, c.addSource)
            ELSE IF shouldUseColor(c, e)
            THEN newColorHandler(c.output, c.level, c.addSource, c.contextKeys)
            ELSE NewStdHandler("text", c.output, c.level, c.addSource) IN
    IF Len(c.contextKeys) > 0
    THEN newContextHandler(baseHandler, c.contextKeys)
    ELSE baseHandler

(* logger.go: createHandler *)
createHandler(c, e) ==
    IF shouldUseJSON(c)
    THEN LET baseHandler == NewStdHandler("json", c.output, c.level, c.addSource) IN
         IF Len(c.contextKeys) > 0
         THEN newContextHandler(baseHandler, c.contextKeys)
         ELSE baseHandler
    ELSE IF shouldUseColor(c, e)
    THEN newColorHandler(c.output, c.level, c.addSource, c.contextKeys)
    ELSE LET baseHandler == NewStdHandler("text", c.output, c.level, c.addSource) IN
         IF Len(c.contextKeys) > 0
         THEN newContextHandler(baseHandler, c.contextKeys)
         ELSE baseHandler

(* The leaf at the bottom of a chain. *)
RECURSIVE Leaf(_)
Leaf(h) == IF h.kind = "ctx" THEN Leaf(h.inner) ELSE h

(* Number of injector layers in a chain. *)
RECURSIVE Injectors(_)
Injectors(h) == IF h.kind = "ctx" THEN 1 + Injectors(h.inner) ELSE 0

----------------------------------------------------------------------------
(* Values, contexts and records (log/slog, context).                       *)

Nil == [t |-> "nil", v |-> ""]

StringValue(s) == [t |-> "string", v |-> s]

IntValue(s) == [t |-> "int", v |-> s]

(* slog.Attr; a group value carries its members in g *)
Attr(k, val) == [key |-> k, val |-> val, g |-> <<>>]

GroupAttr(k, members) == [key |-> k, val |-> [t |-> "group", v |-> ""], g |-> members]

ZeroAttr == Attr("", Nil)

(* context.Context: nil, or a chain of WithValue pairs seen as a map *)
NilCtx == [nil |-> TRUE, vals |-> [k \in {} |-> Nil]]

Ctx(vals) == [nil |-> FALSE, vals |-> vals]

(* ctx.Value(key) *)
CtxValue(ctx, key) ==
    IF key \in DOMAIN ctx.vals THEN ctx.vals[key] ELSE Nil

(* slog.Record, without its time and program counter.  attrs are the       *)
(* attributes it holds; spare are the slots of the backing array of its    *)
(* attribute slice past the length (the unused capacity), which a copy of  *)
(* the record shares with the original.                                    *)
Record(level, msg, attrs) ==
    [level |-> level, msg |-> msg, attrs |-> attrs, spare |-> <<>>]

(* a record whose attribute slice has n slots of unused capacity *)
RecordWithSpare(level, msg, attrs, n) ==
    [Record(level, msg, attrs) EXCEPT !.spare = [k \in 1..n |-> ZeroAttr]]

(* r.Clone(): the copy's slice is clipped, its capacity is its length *)
Clone(r) == [r EXCEPT !.spare = <<>>]

(* r.AddAttrs(attrs...) on a copy r of a record: the copy afterwards.  The *)
(* append is in place when the capacity allows, and slots are then the     *)
(* slots past the old length of the array r arrived with; else it goes     *)
(* into a new array.                                                       *)
AddAttrs(r, attrs) ==
    IF Len(attrs) <= Len(r.spare)
    THEN [rec |-> [r EXCEPT !.attrs = r.attrs \o attrs,
                            !.spare = SubSeq(r.spare, Len(attrs) + 1, Len(r.spare))],
          inPlace |-> TRUE,
          slots |-> attrs \o SubSeq(r.spare, Len(attrs) + 1, Len(r.spare))]
    ELSE [rec |-> [r EXCEPT !.attrs = r.attrs \o attrs, !.spare = <<>>],
          inPlace |-> FALSE,
          slots |-> <<>>]

(* One Write call on the output sink; source is the source location it    *)
(* carries, if any.                                                        *)
Chunk(call, part, level, text, attrs) ==
    [call |-> call, part |-> part, level |-> level, text |-> text, attrs |-> attrs,
     source |-> ""]

(* The frame slog.Logger records as the caller of its log methods: the     *)
(* Logger method of logger.go that made the call.                          *)
CallerFrame == "logger.go"

(* fmt's %v of a.Value.Any() *)
Render(val) == val.v

(* The rendered form of one leaf attribute. *)
Field(k, val) == [key |-> k, val |-> Render(val)]

----------------------------------------------------------------------------
(* handler.go: contextHandler.Handle, the loop over the key list *)

(* the loop without the test for the empty string *)
RECURSIVE CollectCtxAttrs_KeepEmpty(_, _)
CollectCtxAttrs_KeepEmpty(keys, ctx) ==
    IF keys = <<>> THEN <<>>
    ELSE LET v == CtxValue(ctx, Head(keys))
             rest == CollectCtxAttrs_KeepEmpty(Tail(keys), ctx) IN
         IF v # Nil /\ v.t = "string"
         THEN <<Attr(Head(keys), StringValue(v.v))>> \o rest
         ELSE rest

RECURSIVE CollectCtxAttrs(_, _)
CollectCtxAttrs(keys, ctx) ==
    IF keys = <<>> THEN <<>>
    ELSE LET v == CtxValue(ctx, Head(keys))
             rest == CollectCtxAttrs(Tail(keys), ctx) IN
         IF v # Nil /\ v.t = "string" /\ v.v # ""
         THEN <<Attr(Head(keys), StringValue(v.v))>> \o rest
         ELSE rest

(* AddAttrs called on the received copy, with no Clone *)
injectAttrs_NoClone(r, attrs) ==
    LET res == AddAttrs(r, attrs) IN
    [rec |-> res.rec,
     given |-> IF res.inPlace THEN [r EXCEPT !.spare = res.slots] ELSE r]

(* r = r.Clone(); r.AddAttrs(attrs...): the record to delegate, and the    *)
(* record the caller still holds (it shares the array r arrived with)      *)
injectAttrs(r, attrs) ==
    LET c == Clone(r)
        res == AddAttrs(c, attrs) IN
    [rec |-> res.rec,
     given |-> IF res.inPlace THEN [r EXCEPT !.spare = res.slots] ELSE r]

(* contextHandler.Handle up to the call of the child *)
ctxInject(h, ctx, r) ==
    IF ~ctx.nil /\ Len(h.contextKeys) > 0
    THEN LET attrs == CollectCtxAttrs(h.contextKeys, ctx) IN
         IF Len(attrs) > 0
         THEN injectAttrs(r, attrs)
         ELSE [rec |-> r, given |-> r]
    ELSE [rec |-> r, given |-> r]

(* the record the injector hands to its child *)
ctxDelegated(h, ctx, r) == ctxInject(h, ctx, r).rec

----------------------------------------------------------------------------
(* color.go *)

levelString(level) ==
    IF level >= LevelError THEN "ERROR"
    ELSE IF level >= LevelWarn THEN "WARN"
    ELSE IF level >= LevelInfo THEN "INFO"
    ELSE "DEBUG"

levelColor(level) ==
    IF level >= LevelError THEN "red"
    ELSE IF level >= LevelWarn THEN "yellow"
    ELSE IF level >= LevelInfo THEN "green"
    ELSE "blue"

RECURSIVE JoinGroups(_, _)
JoinGroups(groups, key) ==
    IF groups = <<>> THEN key
    ELSE JoinGroups(SubSeq(groups, 1, Len(groups) - 1),
                    groups[Len(groups)] \o "." \o key)

(* A []string as writeAttr sees it: the backing array arr (its capacity is  *)
(* Len(arr)) and the length len.  h.groups is nil or was made by WithGroup  *)
(* with make([]string, n): its capacity equals its length.                  *)
GroupSlice(groups) == [arr |-> groups, len |-> Len(groups)]

(* append(groups, a.Key): in place when the capacity allows, else into a    *)
(* new array of doubled capacity                                            *)
appendGroup(s, name) ==
    IF s.len < Len(s.arr)
    THEN [arr |-> [s.arr EXCEPT ![s.len + 1] = name], len |-> s.len + 1]
    ELSE LET newcap == IF Len(s.arr) = 0 THEN 1 ELSE 2 * Len(s.arr) IN
         [arr |-> [k \in 1..newcap |->
                      IF k <= s.len THEN s.arr[k]
                      ELSE IF k = s.len + 1 THEN name ELSE ""],
          len |-> s.len + 1]

(* writeAttr: the fields one attribute contributes to the line, and the     *)
(* caller's backing array afterwards (an append in place writes into it)    *)
RECURSIVE writeAttr(_, _)
RECURSIVE writeAttrSeq(_, _)

(* the key qualified by every slot of the backing array *)
writeAttr_WholeArray(a, s) ==
    IF a = ZeroAttr THEN [fields |-> <<>>, arr |-> s.arr]
    ELSE IF a.val.t = "group"
    THEN LET newGroups == appendGroup(s, a.key)
             res == writeAttrSeq(a.g, newGroups) IN
         [fields |-> res.fields,
          arr |-> IF s.len < Len(s.arr) THEN res.arr ELSE s.arr]
    ELSE [fields |-> <<Field(JoinGroups(s.arr, a.key), a.val)>>, arr |-> s.arr]

writeAttr(a, s) ==
    IF a = ZeroAttr THEN [fields |-> <<>>, arr |-> s.arr]
    ELSE IF a.val.t = "group"
    THEN LET newGroups == appendGroup(s, a.key)
             res == writeAttrSeq(a.g, newGroups) IN
         [fields |-> res.fields,
          arr |-> IF s.len < Len(s.arr) THEN res.arr ELSE s.arr]
    ELSE [fields |-> <<Field(JoinGroups(SubSeq(s.arr, 1, s.len), a.key), a.val)>>,
          arr |-> s.arr]

(* writeAttr on each attribute of a list in turn, with the same slice *)
writeAttrSeq(as, s) ==
    IF as = <<>> THEN [fields |-> <<>>, arr |-> s.arr]
    ELSE LET first == writeAttr(Head(as), s)
             rest == writeAttrSeq(Tail(as), [arr |-> first.arr, len |-> s.len]) IN
         [fields |-> first.fields \o rest.fields, arr |-> rest.arr]

(* the loops of Handle over h.attrs and over the record's attributes *)
writeAttrs(as, groups) == writeAttrSeq(as, GroupSlice(groups)).fields

(* the context values colorHandler.Handle prints *)
RECURSIVE colorCtxFields(_, _)
colorCtxFields(keys, ctx) ==
    IF keys = <<>> THEN <<>>
    ELSE LET v == CtxValue(ctx, Head(keys))
             rest == colorCtxFields(Tail(keys), ctx) IN
         IF v # Nil /\ v.t = "string" /\ v.v # ""
         THEN <<[key |-> Head(keys), val |-> v.v]>> \o rest
         ELSE rest

(* the context values written after the attributes *)
colorLine_CtxLast(h, ctx, r, call) ==
    LET tok(part, f) == Chunk(call, part, r.level, "", <<f>>)
        ctxFields == IF ~ctx.nil /\ Len(h.contextKeys) > 0
                     THEN colorCtxFields(h.contextKeys, ctx)
                     ELSE <<>>
        pre == writeAttrs(h.attrs, h.groups)
        own == writeAttrs(r.attrs, h.groups)
    IN  << Chunk(call, "time", r.level, "", <<>>),
           Chunk(call, "level", r.level, levelString(r.level), <<>>),
           Chunk(call, "msg", r.level, r.msg, <<>>) >>
        \o [i \in 1..Len(pre) |-> tok("attr", pre[i])]
        \o [i \in 1..Len(own) |-> tok("attr", own[i])]
        \o [i \in 1..Len(ctxFields) |-> tok("ctx", ctxFields[i])]
        \o << Chunk(call, "nl", r.level, "", <<>>) >>

(* colorHandler.Handle: the Fprintf calls, in order, of one record *)
colorLine(h, ctx, r, call) ==
    LET tok(part, f) == Chunk(call, part, r.level, "", <<f>>)
        ctxFields == IF ~ctx.nil /\ Len(h.contextKeys) > 0
                     THEN colorCtxFields(h.contextKeys, ctx)
                     ELSE <<>>
        pre == writeAttrs(h.attrs, h.groups)
        own == writeAttrs(r.attrs, h.groups)
    IN  << Chunk(call, "time", r.level, "", <<>>),
           Chunk(call, "level", r.level, levelString(r.level), <<>>),
           Chunk(call, "msg", r.level, r.msg, <<>>) >>
        \o [i \in 1..Len(ctxFields) |-> tok("ctx", ctxFields[i])]
        \o [i \in 1..Len(pre) |-> tok("attr", pre[i])]
        \o [i \in 1..Len(own) |-> tok("attr", own[i])]
        \o << Chunk(call, "nl", r.level, "", <<>>) >>

(* colorHandler.Handle run to completion by one caller.  The results of    *)
(* Fprintf / Fprintln are discarded; the method returns nil.               *)
colorHandle(h, ctx, r, broken, call) ==
    [writes |-> IF broken THEN <<>> ELSE colorLine(h, ctx, r, call),
     err |-> "nil",
     delegated |-> r,
     given |-> r]

(* a strict comparison *)
colorEnabled_Strict(h, level) == level > h.level

colorEnabled(h, level) == level >= h.level

----------------------------------------------------------------------------
(* log/slog: JSONHandler and TextHandler (commonHandler) *)

stdEnabled(h, level) == level >= h.level

(* the fields the encoder emits for a list of attributes under open groups; *)
(* a JSON object nested under g is read as the fields g.key                 *)
RECURSIVE stdFields(_, _)
stdFields(as, groups) ==
    IF as = <<>> THEN <<>>
    ELSE LET a == Head(as)
             rest == stdFields(Tail(as), groups) IN
         IF a = ZeroAttr THEN rest
         ELSE IF a.val.t = "group"
         THEN stdFields(a.g, IF a.key = "" THEN groups ELSE Append(groups, a.key)) \o rest
         ELSE <<Field(JoinGroups(groups, a.key), a.val)>> \o rest

(* One Write call per record: built-in fields, the attributes formatted by *)
(* WithAttrs, then the record's own under the open groups.  The error of   *)
(* the Write call is returned.                                             *)
stdHandle(h, r, broken, call) ==
    [writes |-> IF broken THEN <<>>
                ELSE <<[Chunk(call, "line", r.level, r.msg,
                              h.pre \o stdFields(r.attrs, h.groups))
                          EXCEPT !.source = IF h.addSource THEN CallerFrame ELSE ""]>>,
     err |-> IF broken THEN "write error" ELSE "nil",
     delegated |-> r,
     given |-> r]

stdWithAttrs(h, attrs) == [h EXCEPT !.pre = h.pre \o stdFields(attrs, h.groups)]

stdWithGroup(h, name) == [h EXCEPT !.groups = Append(h.groups, name)]

----------------------------------------------------------------------------
(* Dispatch over the chain *)

RECURSIVE Enabled(_, _)
Enabled(h, level) ==
    IF h.kind = "ctx" THEN Enabled(h.inner, level)      \* contextHandler.Enabled
    ELSE IF h.kind = "color" THEN colorEnabled(h, level)
    ELSE stdEnabled(h, level)

RECURSIVE Handle(_, _, _, _, _)
Handle(h, ctx, r, broken, call) ==
    IF h.kind = "ctx"
    THEN [Handle(h.inner, ctx, ctxDelegated(h, ctx, r), broken, call)
             EXCEPT !.given = ctxInject(h, ctx, r).given]
    ELSE IF h.kind = "color" THEN colorHandle(h, ctx, r, broken, call)
    ELSE stdHandle(h, r, broken, call)

(* the new handler given a mutex of its own *)
colorWithAttrs_OwnLock(heap, i, attrs) ==
    Append(heap, [heap[i] EXCEPT !.attrs = heap[i].attrs \o attrs,
                                 !.mu = Len(heap) + 1])

(* colorHandler.WithAttrs on the handler heap: a new handler, whose list   *)
(* is a fresh copy.                                                        *)
colorWithAttrs(heap, i, attrs) ==
    Append(heap, [heap[i] EXCEPT !.attrs = heap[i].attrs \o attrs])

(* colorHandler.WithGroup on the handler heap *)
colorWithGroup(heap, i, name) ==
    Append(heap, [heap[i] EXCEPT !.groups = Append(heap[i].groups, name)])

(* contextHandler.WithAttrs / WithGroup, over the library leaves *)
RECURSIVE chainWithAttrs(_, _)
chainWithAttrs(h, attrs) ==
    IF h.kind = "ctx"
    THEN [kind |-> "ctx", inner |-> chainWithAttrs(h.inner, attrs),
          contextKeys |-> h.contextKeys]
    ELSE stdWithAttrs(h, attrs)

RECURSIVE chainWithGroup(_, _)
chainWithGroup(h, name) ==
    IF h.kind = "ctx"
    THEN [kind |-> "ctx", inner |-> chainWithGroup(h.inner, name),
          contextKeys |-> h.contextKeys]
    ELSE stdWithGroup(h, name)

WithAttrs(heap, i, attrs) ==
    IF heap[i].kind = "color" THEN colorWithAttrs(heap, i, attrs)
    ELSE Append(heap, chainWithAttrs(heap[i], attrs))

WithGroup(heap, i, name) ==
    IF heap[i].kind = "color" THEN colorWithGroup(heap, i, name)
    ELSE Append(heap, chainWithGroup(heap[i], name))

(* What a record logged through the leaf of a chain is decorated with. *)
View(h) ==
    LET l == Leaf(h) IN
    IF l.kind = "color" THEN [attrs |-> l.attrs, groups |-> l.groups]
    ELSE [attrs |-> l.pre, groups |-> l.groups]

----------------------------------------------------------------------------
(* mock.go: the capture sink.  The heap holds the TestLogger objects, the  *)
(* maps (TestLogger.attrs, LogEntry.Attrs) and the []LogEntry cells: a     *)
(* cell is a slice, its backing array arr (cap = Len(arr)) and its length. *)
(* Messages are sequences of words.                                        *)

NoSink == [loggers |-> <<>>, maps |-> <<>>, stores |-> <<>>]

EmptyMap == [k \in {} |-> Nil]

ZeroEntry == [Level |-> 0, Message |-> <<>>, Attrs |-> 0, seq |-> 0]

(* NewTestLogger *)
NewTestLogger ==
    [loggers |-> <<[mu |-> 1, entries |-> 1, attrs |-> 1, group |-> ""]>>,
     maps |-> <<EmptyMap>>,
     stores |-> <<[arr |-> <<>>, len |-> 0]>>]

(* m[k] = v *)
MapPut(m, k, v) == [x \in DOMAIN m \cup {k} |-> IF x = k THEN v ELSE m[x]]

(* the loop `for i := 0; i < len(args)-1; i += 2` storing into m, each key *)
(* behind prefix                                                           *)
RECURSIVE PutPairs_Unprefixed(_, _, _)
PutPairs_Unprefixed(m, args, prefix) ==
    IF Len(args) < 2 THEN m
    ELSE LET rest == SubSeq(args, 3, Len(args)) IN
         IF args[1].t = "string"
         THEN PutPairs_Unprefixed(MapPut(m, args[1].v, args[2]), rest, prefix)
         ELSE PutPairs_Unprefixed(m, rest, prefix)

RECURSIVE PutPairs(_, _, _)
PutPairs(m, args, prefix) ==
    IF Len(args) < 2 THEN m
    ELSE LET rest == SubSeq(args, 3, Len(args)) IN
         IF args[1].t = "string"
         THEN PutPairs(MapPut(m, prefix \o args[1].v, args[2]), rest, prefix)
         ELSE PutPairs(m, rest, prefix)

(* append(s, e) on a slice cell: in place when capacity allows, else into  *)
(* a new array of doubled capacity                                         *)
SliceAppend(c, e) ==
    IF c.len < Len(c.arr)
    THEN [arr |-> [c.arr EXCEPT ![c.len + 1] = e], len |-> c.len + 1]
    ELSE LET newcap == IF Len(c.arr) = 0 THEN 1 ELSE 2 * Len(c.arr) IN
         [arr |-> [k \in 1..newcap |->
                      IF k <= c.len THEN c.arr[k]
                      ELSE IF k = c.len + 1 THEN e ELSE ZeroEntry],
          len |-> c.len + 1]

(* the slice t.entries points to, as a sequence *)
Visible(S, i) ==
    LET c == S.stores[S.loggers[i].entries] IN SubSeq(c.arr, 1, c.len)

(* TestLogger.log from the entry it builds to the assignment of            *)
(* append(loaded, entry) to the shared slice, loaded being the slice read  *)
(* from it; n is the sequence number of the call                           *)
sinkStoreEntry(S, i, level, msg, args, n, loaded) ==
    LET t == S.loggers[i]
        prefix == IF t.group # "" THEN t.group \o "." ELSE ""
        attrs == PutPairs(S.maps[t.attrs], args, prefix)
        entry == [Level |-> level, Message |-> msg,
                  Attrs |-> Len(S.maps) + 1, seq |-> n] IN
    [S EXCEPT !.maps = Append(S.maps, attrs),
              !.stores[t.entries] = SliceAppend(loaded, entry)]

(* TestLogger.log run to completion by one caller *)
sinkLogEntry(S, i, level, msg, args, n) ==
    sinkStoreEntry(S, i, level, msg, args, n, S.stores[S.loggers[i].entries])

(* the child given the receiver's map, the new pairs stored into it *)
sinkWith_SharedMap(S, i, args) ==
    LET t == S.loggers[i]
        newLogger == [mu |-> t.mu, entries |-> t.entries,
                      attrs |-> t.attrs, group |-> t.group] IN
    [S EXCEPT !.maps[t.attrs] = PutPairs(S.maps[t.attrs], args, ""),
              !.loggers = Append(S.loggers, newLogger)]

(* the child given a store of its own, holding a copy of the entries *)
sinkWith_CopyStore(S, i, args) ==
    LET t == S.loggers[i]
        newLogger == [mu |-> t.mu, entries |-> Len(S.stores) + 1,
                      attrs |-> Len(S.maps) + 1, group |-> t.group] IN
    [S EXCEPT !.maps = Append(S.maps, PutPairs(S.maps[t.attrs], args, "")),
              !.stores = Append(S.stores, S.stores[t.entries]),
              !.loggers = Append(S.loggers, newLogger)]

(* TestLogger.With *)
sinkWith(S, i, args) ==
    LET t == S.loggers[i]
        newLogger == [mu |-> t.mu, entries |-> t.entries,
                      attrs |-> Len(S.maps) + 1, group |-> t.group] IN
    [S EXCEPT !.maps = Append(S.maps, PutPairs(S.maps[t.attrs], args, "")),
              !.loggers = Append(S.loggers, newLogger)]

(* TestLogger.WithGroup *)
sinkWithGroup(S, i, name) ==
    LET t == S.loggers[i]
        newGroup == IF t.group # "" THEN t.group \o "." \o name ELSE name
        newLogger == [mu |-> t.mu, entries |-> t.entries,
                      attrs |-> Len(S.maps) + 1, group |-> newGroup] IN
    [S EXCEPT !.maps = Append(S.maps, S.maps[t.attrs]),
              !.loggers = Append(S.loggers, newLogger)]

(* the receiver pointed at a new empty slice *)
sinkClear_Repoint(S, i) ==
    [S EXCEPT !.stores = Append(S.stores, [arr |-> <<>>, len |-> 0]),
              !.loggers[i].entries = Len(S.stores) + 1]

(* TestLogger.Clear: the slice is cut to length 0, its array is kept *)
sinkClear(S, i) ==
    [S EXCEPT !.stores[S.loggers[i].entries].len = 0]

(* TestLogger.Entries: a copy of the slice *)
Entries(S, i) == Visible(S, i)

(* strings.Contains, on words *)
Contains(msg, sub) ==
    \E k \in 0..(Len(msg) - Len(sub)) : SubSeq(msg, k + 1, k + Len(sub)) = sub

(* TestLogger.HasEntry *)
HasEntry(S, i, level, sub) ==
    \E k \in 1..Len(Visible(S, i)) :
        LET e == Visible(S, i)[k] IN e.Level = level /\ Contains(e.Message, sub)

(* TestLogger.HasEntryWithAttr *)
HasEntryWithAttr(S, i, level, sub, key, value) ==
    \E k \in 1..Len(Visible(S, i)) :
        LET e == Visible(S, i)[k] IN
        /\ e.Level = level /\ Contains(e.Message, sub)
        /\ key \in DOMAIN S.maps[e.Attrs] /\ S.maps[e.Attrs][key] = value

(* TestLogger.Count *)
Count(S, i, level) ==
    Cardinality({k \in 1..Len(Visible(S, i)) : Visible(S, i)[k].Level = level})

(* TestLogger.Len; named SinkLen beside the Len of sequences *)
SinkLen(S, i) == Len(Visible(S, i))

(* What an entry logged through handle i is decorated with. *)
SinkView(S, i) == [attrs |-> S.maps[S.loggers[i].attrs], groups |-> S.loggers[i].group]

SinkLogCall(i, level, msg, args) ==
    /\ i \in DOMAIN sink.loggers
    /\ LET n == Len(sinkLog) + Cardinality(cleared) + 1 IN
       /\ sink' = sinkLogEntry(sink, i, level, msg, args, n)
       /\ sinkLog' = Append(sinkLog, [seq |-> n, by |-> i, level |-> level, msg |-> msg,
                                   args |-> args])
    /\ UNCHANGED <<fnVars, cfgVars, chainVars, cleared, born, procVars>>

SinkWith(i, args) ==
    /\ i \in DOMAIN sink.loggers
    /\ sink' = sinkWith(sink, i, args)
    /\ born' = Append(born, SinkView(sink', Len(sink'.loggers)))
    /\ UNCHANGED <<fnVars, cfgVars, chainVars, sinkLog, cleared, procVars>>

SinkWithGroup(i, name) ==
    /\ i \in DOMAIN sink.loggers
    /\ sink' = sinkWithGroup(sink, i, name)
    /\ born' = Append(born, SinkView(sink', Len(sink'.loggers)))
    /\ UNCHANGED <<fnVars, cfgVars, chainVars, sinkLog, cleared, procVars>>

SinkClear(i) ==
    /\ i \in DOMAIN sink.loggers
    /\ sink' = sinkClear(sink, i)
    /\ sinkLog' = <<>>
    /\ cleared' = cleared \cup {sinkLog[k].seq : k \in 1..Len(sinkLog)}
    /\ UNCHANGED <<fnVars, cfgVars, chainVars, born, procVars>>

(* TestLogger.Entries called by a test: the caller keeps the slice it got. *)
(* copy() copies the LogEntry structs, so each copied entry carries the    *)
(* same Attrs map reference as the stored one.                             *)
SinkEntries(i) ==
    /\ i \in DOMAIN sink.loggers
    /\ held' = Entries(sink, i)
    /\ UNCHANGED <<input, result, cfgVars, chainVars, sinkVars, born, procVars>>

(* the caller assigns to an element of the slice it holds: es[k] = e *)
HeldSetEntry(k, e) ==
    /\ k \in DOMAIN held
    /\ held' = [held EXCEPT ![k] = e]
    /\ UNCHANGED <<input, result, cfgVars, chainVars, sinkVars, born, procVars>>

(* the caller stores into the Attrs map of an entry it holds:              *)
(* es[k].Attrs[key] = v                                                    *)
HeldPutAttr(k, key, v) ==
    /\ k \in DOMAIN held
    /\ held[k].Attrs # 0
    /\ sink' = [sink EXCEPT !.maps[held[k].Attrs] = MapPut(@, key, v)]
    /\ UNCHANGED <<fnVars, cfgVars, chainVars, sinkLog, cleared, born, procVars>>

----------------------------------------------------------------------------
(* logger.go: the Logger methods, each over slog.Logger *)

NoCall == [op |-> "none", logger |-> 0, level |-> 0, enabled |-> FALSE,
           ctx |-> NilCtx, rec |-> Record(0, "", <<>>),
           delegated |-> Record(0, "", <<>>), given |-> Record(0, "", <<>>),
           err |-> "nil", wrote |-> <<>>,
           broken |-> FALSE]

Lines(o) == SelectSeq(o, LAMBDA c : c.part \in {"line", "nl"})

(* Debug / Info / Warn / Error and their Context variants: slog.Logger.log *)
(* checks Enabled, builds the record and calls Handle.                     *)
(* spare is the unused capacity the record's attribute slice was built     *)
(* with.                                                                   *)
LoggerLogCap(i, ctx, level, msg, attrs, spare) ==
    /\ newPc = "built"
    /\ i \in DOMAIN handlers
    /\ LET h == handlers[i]
           r == RecordWithSpare(level, msg, attrs, spare)
           en == Enabled(h, level)
           res == Handle(h, ctx, r, wBroken, Len(Lines(out)) + 1) IN
       /\ seen' = seen \cup {level}
       /\ IF en
          THEN /\ Len(Lines(out)) < MaxOut
               /\ out' = out \o res.writes
               /\ last' = [op |-> "Handle", logger |-> i, level |-> level,
                           enabled |-> TRUE, ctx |-> ctx, rec |-> r,
                           delegated |-> res.delegated, given |-> res.given,
                           err |-> res.err,
                           wrote |-> res.writes, broken |-> wBroken]
          ELSE /\ out' = out
               /\ last' = [NoCall EXCEPT !.op = "filtered", !.logger = i,
                                         !.level = level, !.ctx = ctx, !.rec = r]
    /\ UNCHANGED <<fnVars, cfgVars, handlers, wBroken, sinkVars, born, procVars>>

LoggerLog(i, ctx, level, msg, attrs) == LoggerLogCap(i, ctx, level, msg, attrs, 0)

(* logger.With; with no arguments slog returns the receiver *)
LoggerWith(i, attrs) ==
    /\ newPc = "built"
    /\ i \in DOMAIN handlers
    /\ attrs # <<>>
    /\ handlers' = WithAttrs(handlers, i, attrs)
    /\ born' = Append(born, View(handlers'[Len(handlers')]))
    /\ UNCHANGED <<fnVars, cfgVars, out, wBroken, last, seen, sinkVars, procVars>>

(* logger.WithGroup; with an empty name slog returns the receiver *)
LoggerWithGroup(i, name) ==
    /\ newPc = "built"
    /\ i \in DOMAIN handlers
    /\ name # ""
    /\ handlers' = WithGroup(handlers, i, name)
    /\ born' = Append(born, View(handlers'[Len(handlers')]))
    /\ UNCHANGED <<fnVars, cfgVars, out, wBroken, last, seen, sinkVars, procVars>>

(* Goroutines calling a colorized renderer's Handle at the same time.     *)
(* Handle locks h.mu, makes its Fprintf calls one after the other and      *)
(* unlocks on return (the deferred Unlock).                                *)

Goroutines == 1..NumGoroutines

NoLocks == [m \in 1..(MaxLoggers + 1) |-> 0]

Idle == [pc |-> "idle", op |-> "", call |-> 0, logger |-> 0, ctx |-> NilCtx, words |-> <<>>,
         rec |-> Record(0, "", <<>>), line |-> <<>>, pos |-> 0]

AllIdle == [g \in Goroutines |-> Idle]

(* a log method of logger i: slog.Logger.log finds the level enabled and   *)
(* calls Handle, which reaches h.mu.Lock()                                 *)
HandleCall(g, i, ctx, level, msg, attrs) ==
    /\ newPc = "built"
    /\ i \in DOMAIN handlers
    /\ handlers[i].kind = "color"
    /\ gor[g].pc = "idle"
    /\ ncalls < MaxCalls
    /\ Enabled(handlers[i], level)
    /\ ncalls' = ncalls + 1
    /\ gor' = [gor EXCEPT ![g] =
                 [pc |-> "waiting", op |-> "Handle", call |-> ncalls + 1, logger |-> i,
                  ctx |-> ctx, words |-> <<>>,
                  rec |-> Record(level, msg, attrs), line |-> <<>>, pos |-> 0]]
    /\ seen' = seen \cup {level}
    /\ UNCHANGED <<fnVars, cfgVars, handlers, out, wBroken, last, sinkVars, born, mutex>>

(* h.mu.Lock() returns *)
HandleLock(g) ==
    /\ gor[g].pc = "waiting"
    /\ LET h == handlers[gor[g].logger] IN
       /\ mutex[h.mu] = 0
       /\ mutex' = [mutex EXCEPT ![h.mu] = g]
       /\ gor' = [gor EXCEPT ![g].pc = "writing",
                             ![g].line = colorLine(h, gor[g].ctx, gor[g].rec, gor[g].call)]
    /\ UNCHANGED <<fnVars, cfgVars, chainVars, sinkVars, born, ncalls>>

(* the next Fprintf / Fprintln *)
HandleWrite(g) ==
    /\ gor[g].pc = "writing"
    /\ gor[g].pos < Len(gor[g].line)
    /\ out' = IF wBroken THEN out ELSE Append(out, gor[g].line[gor[g].pos + 1])
    /\ gor' = [gor EXCEPT ![g].pos = gor[g].pos + 1]
    /\ UNCHANGED <<fnVars, cfgVars, handlers, wBroken, last, seen, sinkVars, born, mutex, ncalls>>

(* return nil; the deferred h.mu.Unlock() *)
HandleUnlock(g) ==
    /\ gor[g].pc = "writing"
    /\ gor[g].pos = Len(gor[g].line)
    /\ mutex' = [mutex EXCEPT ![handlers[gor[g].logger].mu] = 0]
    /\ last' = [op |-> "Handle", logger |-> gor[g].logger, level |-> gor[g].rec.level,
                enabled |-> TRUE, ctx |-> gor[g].ctx, rec |-> gor[g].rec,
                delegated |-> gor[g].rec, given |-> gor[g].rec, err |-> "nil",
                wrote |-> IF wBroken THEN <<>> ELSE gor[g].line, broken |-> wBroken]
    /\ gor' = [gor EXCEPT ![g] = Idle]
    /\ UNCHANGED <<fnVars, cfgVars, handlers, out, wBroken, seen, sinkVars, born, ncalls>>

(* Goroutines calling the log methods of the capture sink at the same      *)
(* time.  log locks t.mu, builds the entry, reads the shared slice,        *)
(* assigns the appended slice back and unlocks on return.                  *)

(* a log method of handle i is called and reaches t.mu.Lock() *)
SinkCall(g, i, level, msg, args) ==
    /\ i \in DOMAIN sink.loggers
    /\ gor[g].pc = "idle"
    /\ ncalls' = ncalls + 1
    /\ gor' = [gor EXCEPT ![g] =
                 [Idle EXCEPT !.pc = "sink waiting", !.op = "log", !.logger = i,
                              !.words = msg, !.rec = Record(level, "", args)]]
    /\ UNCHANGED <<fnVars, cfgVars, chainVars, sinkVars, born, mutex>>

(* t.mu.Lock() returning at once, whoever holds the mutex *)
SinkLock_NoWait(g) ==
    /\ gor[g].pc = "sink waiting"
    /\ LET n == Len(sinkLog) + Cardinality(cleared) + 1
           c == gor[g].rec IN
       /\ mutex' = [mutex EXCEPT ![sink.loggers[gor[g].logger].mu] = g]
       /\ gor' = [gor EXCEPT ![g].pc = "sink locked", ![g].call = n]
       /\ sinkLog' = Append(sinkLog, [seq |-> n, by |-> gor[g].logger, level |-> c.level,
                                      msg |-> gor[g].words, args |-> c.attrs])
    /\ UNCHANGED <<fnVars, cfgVars, chainVars, sink, cleared, born, ncalls>>

(* t.mu.Lock() returns; the call takes the next place in the lock order *)
SinkLock(g) ==
    /\ gor[g].pc = "sink waiting"
    /\ mutex[sink.loggers[gor[g].logger].mu] = 0
    /\ LET n == Len(sinkLog) + Cardinality(cleared) + 1
           c == gor[g].rec IN
       /\ mutex' = [mutex EXCEPT ![sink.loggers[gor[g].logger].mu] = g]
       /\ gor' = [gor EXCEPT ![g].pc = "sink locked", ![g].call = n]
       /\ sinkLog' = Append(sinkLog, [seq |-> n, by |-> gor[g].logger, level |-> c.level,
                                      msg |-> gor[g].words, args |-> c.attrs])
    /\ UNCHANGED <<fnVars, cfgVars, chainVars, sink, cleared, born, ncalls>>

(* the read of the shared slice, the argument of append *)
SinkLoad(g) ==
    /\ gor[g].pc = "sink locked"
    /\ LET c == sink.stores[sink.loggers[gor[g].logger].entries] IN
       gor' = [gor EXCEPT ![g].pc = "sink loaded", ![g].line = c.arr, ![g].pos = c.len]
    /\ UNCHANGED <<fnVars, cfgVars, chainVars, sinkVars, born, mutex, ncalls>>

(* the assignment of the appended slice to the shared slice *)
SinkStore(g) ==
    /\ gor[g].pc = "sink loaded"
    /\ LET c == gor[g].rec IN
       sink' = sinkStoreEntry(sink, gor[g].logger, c.level, gor[g].words, c.attrs, gor[g].call,
                              [arr |-> gor[g].line, len |-> gor[g].pos])
    /\ gor' = [gor EXCEPT ![g].pc = "sink stored", ![g].line = <<>>, ![g].pos = 0]
    /\ UNCHANGED <<fnVars, cfgVars, chainVars, sinkLog, cleared, born, mutex, ncalls>>

(* the deferred t.mu.Unlock(); log returns *)
SinkUnlock(g) ==
    /\ gor[g].pc = "sink stored"
    /\ mutex' = [mutex EXCEPT ![sink.loggers[gor[g].logger].mu] = 0]
    /\ gor' = [gor EXCEPT ![g] = Idle]
    /\ UNCHANGED <<fnVars, cfgVars, chainVars, sinkVars, born, ncalls>>

(* The other methods of the capture sink called from goroutines: each     *)
(* locks t.mu in its first statement, runs its body and unlocks on return  *)
(* (the deferred Unlock).  The group name of WithGroup and the pairs of    *)
(* With are kept in the goroutine's rec.  Entries, HasEntry,               *)
(* HasEntryWithAttr, Count and Len read the entries and change nothing;    *)
(* what they return stays with the caller.                                 *)

SinkOps == {"With", "WithGroup", "Entries", "Clear",
            "HasEntry", "HasEntryWithAttr", "Count", "Len"}

(* the method op of handle i is called and reaches t.mu.Lock() *)
SinkOpCall(g, i, op, name, args) ==
    /\ i \in DOMAIN sink.loggers
    /\ op \in SinkOps
    /\ gor[g].pc = "idle"
    /\ gor' = [gor EXCEPT ![g] =
                 [Idle EXCEPT !.pc = "op waiting", !.op = op, !.logger = i,
                              !.rec = Record(0, name, args)]]
    /\ UNCHANGED <<fnVars, cfgVars, chainVars, sinkVars, born, mutex, ncalls>>

(* t.mu.Lock() returns *)
SinkOpLock(g) ==
    /\ gor[g].pc = "op waiting"
    /\ mutex[sink.loggers[gor[g].logger].mu] = 0
    /\ mutex' = [mutex EXCEPT ![sink.loggers[gor[g].logger].mu] = g]
    /\ gor' = [gor EXCEPT ![g].pc = "op locked"]
    /\ UNCHANGED <<fnVars, cfgVars, chainVars, sinkVars, born, ncalls>>

(* the body runs and the method returns, the mutex left locked *)
SinkOpReturn_KeepLock(g) ==
    /\ gor[g].pc = "op locked"
    /\ LET i == gor[g].logger
           op == gor[g].op
           a == gor[g].rec IN
       /\ sink' = CASE op = "With" -> sinkWith(sink, i, a.attrs)
                    [] op = "WithGroup" -> sinkWithGroup(sink, i, a.msg)
                    [] op = "Clear" -> sinkClear(sink, i)
                    [] OTHER -> sink
       /\ born' = IF op \in {"With", "WithGroup"}
                  THEN Append(born, SinkView(sink', Len(sink'.loggers)))
                  ELSE born
       /\ sinkLog' = IF op = "Clear" THEN <<>> ELSE sinkLog
       /\ cleared' = IF op = "Clear"
                     THEN cleared \cup {sinkLog[k].seq : k \in 1..Len(sinkLog)}
                     ELSE cleared
    /\ gor' = [gor EXCEPT ![g] = Idle]
    /\ UNCHANGED <<fnVars, cfgVars, chainVars, mutex, ncalls>>

(* the body runs and the method returns: the deferred t.mu.Unlock() *)
SinkOpReturn(g) ==
    /\ gor[g].pc = "op locked"
    /\ LET i == gor[g].logger
           op == gor[g].op
           a == gor[g].rec IN
       /\ sink' = CASE op = "With" -> sinkWith(sink, i, a.attrs)
                    [] op = "WithGroup" -> sinkWithGroup(sink, i, a.msg)
                    [] op = "Clear" -> sinkClear(sink, i)
                    [] OTHER -> sink
       /\ born' = IF op \in {"With", "WithGroup"}
                  THEN Append(born, SinkView(sink', Len(sink'.loggers)))
                  ELSE born
       /\ sinkLog' = IF op = "Clear" THEN <<>> ELSE sinkLog
       /\ cleared' = IF op = "Clear"
                     THEN cleared \cup {sinkLog[k].seq : k \in 1..Len(sinkLog)}
                     ELSE cleared
       /\ mutex' = [mutex EXCEPT ![sink.loggers[i].mu] = 0]
    /\ gor' = [gor EXCEPT ![g] = Idle]
    /\ UNCHANGED <<fnVars, cfgVars, chainVars, ncalls>>

(* The output sink starts to fail (a closed pipe). *)
WriterBreaks ==
    /\ newPc = "built"
    /\ ~wBroken
    /\ wBroken' = TRUE
    /\ UNCHANGED <<fnVars, cfgVars, handlers, out, last, seen, sinkVars, born, procVars>>

----------------------------------------------------------------------------
(* New(opts...): defaultConfig, then each option in order, then            *)
(* newLoggerFromConfig.                                                    *)

InitConfig ==
    /\ osEnv \in OsEnvs
    /\ cfg = NoConfig
    /\ applied = {}
    /\ newPc = "idle"
    /\ handlers = <<>>
    /\ out = <<>>
    /\ wBroken = FALSE
    /\ last = NoCall
    /\ seen = {}
    /\ sink = NoSink
    /\ sinkLog = <<>>
    /\ cleared = {}
    /\ born = <<>>
    /\ mutex = NoLocks
    /\ gor = AllIdle
    /\ ncalls = 0
    /\ input = <<>>
    /\ result = NoResult
    /\ held = <<>>

DefaultConfig ==
    /\ newPc = "idle"
    /\ cfg' = defaultConfig(osEnv)
    /\ newPc' = "opts"
    /\ UNCHANGED <<fnVars, osEnv, applied, chainVars, sinkVars, born, procVars>>

CanApply == newPc = "opts" /\ Cardinality(applied) < MaxOpts

WithEnv(env) ==
    /\ CanApply
    /\ cfg' = [cfg EXCEPT !.env = env]
    /\ applied' = applied \cup {"WithEnv"}
    /\ UNCHANGED <<fnVars, osEnv, newPc, chainVars, sinkVars, born, procVars>>

WithLevel(level) ==
    /\ CanApply
    /\ cfg' = [cfg EXCEPT !.level = level]
    /\ applied' = applied \cup {"WithLevel"}
    /\ UNCHANGED <<fnVars, osEnv, newPc, chainVars, sinkVars, born, procVars>>

WithOutput(w) ==
    /\ CanApply
    /\ cfg' = [cfg EXCEPT !.output = w]
    /\ applied' = applied \cup {"WithOutput"}
    /\ UNCHANGED <<fnVars, osEnv, newPc, chainVars, sinkVars, born, procVars>>

WithContextKeys(keys) ==
    /\ CanApply
    /\ cfg' = [cfg EXCEPT !.contextKeys = keys]
    /\ applied' = applied \cup {"WithContextKeys"}
    /\ UNCHANGED <<fnVars, osEnv, newPc, chainVars, sinkVars, born, procVars>>

WithSource(enabled) ==
    /\ CanApply
    /\ cfg' = [cfg EXCEPT !.addSource = enabled]
    /\ applied' = applied \cup {"WithSource"}
    /\ UNCHANGED <<fnVars, osEnv, newPc, chainVars, sinkVars, born, procVars>>

WithColor(enabled) ==
    /\ CanApply
    /\ cfg' = [cfg EXCEPT !.useColor = IF enabled THEN ColorOn ELSE ColorOff]
    /\ applied' = applied \cup {"WithColor"}
    /\ UNCHANGED <<fnVars, osEnv, newPc, chainVars, sinkVars, born, procVars>>

newLoggerFromConfig ==
    /\ newPc = "opts"
    /\ handlers' = <<createHandler(cfg, osEnv)>>
    /\ newPc' = "built"
    /\ born' = <<View(handlers'[1])>>
    /\ UNCHANGED <<fnVars, osEnv, cfg, applied, out, wBroken, last, seen, sinkVars, procVars>>

NextConfig ==
    \/ DefaultConfig
    \/ \E env \in Envs : WithEnv(env)
    \/ \E level \in Levels : WithLevel(level)
    \/ \E w \in Outputs : WithOutput(w)
    \/ \E keys \in KeyLists : WithContextKeys(keys)
    \/ \E enabled \in BOOLEAN : WithSource(enabled)
    \/ \E enabled \in BOOLEAN : WithColor(enabled)
    \/ newLoggerFromConfig

SpecConfig == InitConfig /\ [][NextConfig]_vars

----------------------------------------------------------------------------
(* Loggers in use: the state New leaves behind for a configuration whose   *)
(* every field was set by an option, the output being a buffer.            *)

QuietEnv == [XLOG_ENV |-> <<>>, XLOG_LEVEL |-> <<>>,
             stdoutTTY |-> FALSE, stderrTTY |-> FALSE]

BufferConfigs(envs, levels, keyLists, colors) ==
    [env : envs, level : levels, output : {Buffer}, contextKeys : keyLists,
     addSource : {FALSE}, useColor : colors]

InitBuilt(c) ==
    /\ osEnv = QuietEnv
    /\ cfg = c
    /\ applied = {"WithEnv", "WithLevel", "WithOutput", "WithContextKeys"}
                    \cup (IF c.useColor = ColorNil THEN {} ELSE {"WithColor"})
                    \cup (IF c.addSource THEN {"WithSource"} ELSE {})
    /\ newPc = "built"
    /\ handlers = <<createHandler(c, osEnv)>>
    /\ born = <<View(handlers[1])>>
    /\ sink = NoSink
    /\ sinkLog = <<>>
    /\ cleared = {}
    /\ mutex = NoLocks
    /\ gor = AllIdle
    /\ ncalls = 0
    /\ input = <<>>
    /\ result = NoResult
    /\ held = <<>>
    /\ out = <<>>
    /\ wBroken = FALSE
    /\ last = NoCall
    /\ seen = {}

(* Severity filtering: every severity through every chain shape. *)

MsgOf(level) ==
    CASE level = LevelDebug -> "debug message"
      [] level = LevelInfo -> "info message"
      [] level = LevelWarn -> "warn message"
      [] level = LevelError -> "error message"

SampleCtx == Ctx([k \in {KeyRequestID} |-> StringValue("req-123")])

InitLevels ==
    \E c \in BufferConfigs(Envs, Levels, {<<>>, <<KeyRequestID>>},
                           {ColorNil, ColorOn, ColorOff}) : InitBuilt(c)

NextLevels ==
    \E level \in Levels : LoggerLog(1, SampleCtx, level, MsgOf(level), <<>>)

SpecLevels == InitLevels /\ [][NextLevels]_vars

(* Context injection: every context through every key list. *)

CtxValues == {Nil, StringValue(""), StringValue("req-123"), IntValue("42")}

CtxMaps ==
    UNION { [D -> CtxValues \ {Nil}] : D \in SUBSET {KeyRequestID, KeyTraceID} }

Ctxs ==
    {NilCtx} \cup {Ctx(m) : m \in CtxMaps}
            \cup {Ctx([k \in {KeyRequestID, KeyTraceID, KeyUserID} |->
                         IF k = KeyRequestID THEN StringValue("req-123")
                         ELSE IF k = KeyTraceID THEN StringValue("trace-456")
                         ELSE StringValue("user-abc")])}

InitInject ==
    \E c \in BufferConfigs({EnvProduction, EnvDevelopment}, {LevelInfo}, KeyLists,
                           {ColorOn, ColorOff}) : InitBuilt(c)

NextInject ==
    \/ \E ctx \in Ctxs, attrs \in {<<>>, <<Attr("method", StringValue("GET"))>>} :
          /\ Len(Lines(out)) < MaxInjected
          /\ LoggerLog(1, ctx, LevelInfo, "context message", attrs)
    \/ WriterBreaks

SpecInject == InitInject /\ [][NextInject]_vars

(* The capture sink in use. *)

InitSink ==
    /\ osEnv = QuietEnv
    /\ cfg = NoConfig
    /\ applied = {}
    /\ newPc = "idle"
    /\ handlers = <<>>
    /\ out = <<>>
    /\ wBroken = FALSE
    /\ last = NoCall
    /\ seen = {}
    /\ sink = NewTestLogger
    /\ sinkLog = <<>>
    /\ cleared = {}
    /\ born = <<SinkView(sink, 1)>>
    /\ mutex = NoLocks
    /\ gor = AllIdle
    /\ ncalls = 0
    /\ input = <<>>
    /\ result = NoResult
    /\ held = <<>>

ServiceApi == <<StringValue("service"), StringValue("api")>>

SinkCalls == Len(sinkLog) + Cardinality(cleared)

NextSink ==
    \/ \E i \in 1..MaxSinkLoggers, level \in {LevelInfo, LevelError} :
          SinkCalls < MaxLogCalls /\ SinkLogCall(i, level, <<"child", "message">>, <<>>)
    \/ \E i \in 1..MaxSinkLoggers :
          Len(sink.loggers) < MaxSinkLoggers /\ SinkWith(i, ServiceApi)
    \/ \E i \in 1..MaxSinkLoggers :
          Len(sink.loggers) < MaxSinkLoggers /\ SinkWithGroup(i, "request")
    \/ \E i \in 1..MaxSinkLoggers : SinkClear(i)

SpecSink == InitSink /\ [][NextSink]_vars

(* The colorized renderer called from several goroutines. *)

InitColor ==
    \E c \in BufferConfigs({EnvDevelopment}, {LevelInfo}, {<<>>, <<KeyRequestID>>},
                           {ColorOn}) : InitBuilt(c)

NextColor ==
    \/ \E g \in Goroutines, i \in 1..MaxLoggers :
          HandleCall(g, i, SampleCtx, LevelInfo, "info message",
                     <<Attr("method", StringValue("GET"))>>)
    \/ \E g \in Goroutines : HandleLock(g)
    \/ \E g \in Goroutines : HandleWrite(g)
    \/ \E g \in Goroutines : HandleUnlock(g)
    \/ \E i \in 1..MaxLoggers :
          Len(handlers) < MaxLoggers
            /\ LoggerWith(i, <<Attr("service", StringValue("api"))>>)
    \/ \E i \in 1..MaxLoggers :
          Len(handlers) < MaxLoggers /\ LoggerWithGroup(i, "request")

SpecColor == InitColor /\ [][NextColor]_vars

(* Derivations on either leaf: the capture sink, or the colorized renderer. *)

InitDerive == InitSink \/ InitColor

RegionEu == <<StringValue("region"), StringValue("eu")>>

NextDerive ==
    \/ \E i \in 1..MaxDerived :
          SinkCalls < MaxDerivedCalls
            /\ SinkLogCall(i, LevelInfo, <<"parent", "message">>, <<>>)
    \/ \E i \in 1..MaxDerived, args \in {ServiceApi, RegionEu} :
          Len(sink.loggers) < MaxDerived /\ SinkWith(i, args)
    \/ \E i \in 1..MaxDerived :
          Len(sink.loggers) < MaxDerived /\ SinkWithGroup(i, "request")
    \/ NextColor

SpecDerive == InitDerive /\ [][NextDerive]_vars

(* Attribute trees through the colorized renderer: a chain of derivations, *)
(* then one record logged through the newest logger.                       *)

MethodGet == Attr("method", StringValue("GET"))

TreeLeaves == {MethodGet, ZeroAttr}

ListsUpTo2(S) == {<<>>} \cup {<<a>> : a \in S} \cup {<<a, b>> : a \in S, b \in S}

Trees1 ==
    TreeLeaves \cup {GroupAttr(n, m) : n \in {"request", "user"}, m \in ListsUpTo2(TreeLeaves)}

Trees2 ==
    TreeLeaves \cup {GroupAttr("http", m) : m \in ListsUpTo2(Trees1)}

(* four levels of nesting, with siblings after each inner group *)
DeepTree ==
    GroupAttr("a", <<GroupAttr("b", <<GroupAttr("c", <<GroupAttr("d", <<MethodGet>>),
                                                         Attr("id", IntValue("7"))>>),
                                      GroupAttr("e", <<MethodGet>>),
                                      MethodGet>>),
                     Attr("id", IntValue("7"))>>)

TreeRecords ==
    {<<t>> : t \in Trees2 \cup {DeepTree}}
        \cup {<<t, Attr("id", IntValue("7"))>> : t \in Trees2 \cup {DeepTree}}

InitFlatten ==
    \E c \in BufferConfigs({EnvDevelopment}, {LevelInfo}, {<<>>}, {ColorOn}) : InitBuilt(c)

NextFlatten ==
    \/ \E name \in {"svc", "api"} :
          /\ Len(handlers) <= MaxChain
          /\ out = <<>>
          /\ LoggerWithGroup(Len(handlers), name)
    \/ /\ Len(handlers) <= MaxChain
       /\ out = <<>>
       /\ LoggerWith(Len(handlers), <<GroupAttr("request", <<MethodGet>>)>>)
    \/ \E attrs \in TreeRecords :
          /\ out = <<>>
          /\ LoggerLog(Len(handlers), NilCtx, LevelInfo, "info message", attrs)

SpecFlatten == InitFlatten /\ [][NextFlatten]_vars

(* Entries of the capture sink: a chain of derivations, then log calls     *)
(* with argument lists of every shape.                                     *)

ArgLists ==
    { <<>>,
      <<StringValue("k"), StringValue("v")>>,
      <<StringValue("k")>>,
      <<StringValue("k"), StringValue("v"), StringValue("region")>>,
      <<IntValue("42"), StringValue("v")>>,
      <<IntValue("42"), StringValue("v"), StringValue("k"), StringValue("w")>>,
      <<StringValue("service"), StringValue("web")>>,
      <<StringValue("k"), StringValue("v"), StringValue("k"), StringValue("w")>>,
      <<StringValue("port"), IntValue("8080"), IntValue("42")>>,
      <<StringValue("k"), Nil>> }

NextEntry ==
    \/ /\ Len(sink.loggers) <= MaxChain
       /\ SinkCalls = 0
       /\ SinkWith(Len(sink.loggers), ServiceApi)
    \/ \E name \in {"request", "db"} :
          /\ Len(sink.loggers) <= MaxChain
          /\ SinkCalls = 0
          /\ SinkWithGroup(Len(sink.loggers), name)
    \/ \E level \in {LevelInfo, LevelError}, args \in ArgLists :
          /\ SinkCalls < MaxDerivedCalls
          /\ SinkLogCall(Len(sink.loggers), level, <<"x">>, args)

SpecEntry == InitSink /\ [][NextEntry]_vars

(* ParseLevel on level texts: the level names and near misses in every     *)
(* letter case and padding, and every short text over a few characters.    *)

LevelWords ==
    { <<"d", "e", "b", "u", "g">>, <<"i", "n", "f", "o">>, <<"w", "a", "r", "n">>,
      <<"w", "a", "r", "n", "i", "n", "g">>, <<"e", "r", "r", "o", "r">>,
      <<>>, <<"u", "n", "k", "n", "o", "w", "n">>, <<"w", "a", "r", "n", "i", "n">>,
      <<"i", "n", "f", "o", "s">>, <<"i", "n", " ", "f", "o">>,
      <<"t", "r", "a", "c", "e">>, <<"e", "r", "r">> }

UpperChar(c) ==
    CASE c = "d" -> "D" [] c = "e" -> "E" [] c = "b" -> "B" [] c = "u" -> "U"
      [] c = "g" -> "G" [] c = "i" -> "I" [] c = "n" -> "N" [] c = "f" -> "F"
      [] c = "o" -> "O" [] c = "w" -> "W" [] c = "a" -> "A" [] c = "r" -> "R"
      [] c = "s" -> "S" [] c = "t" -> "T" [] c = "c" -> "C"
      [] OTHER -> c

LetterCases(w) ==
    { w,
      [i \in 1..Len(w) |-> UpperChar(w[i])],
      [i \in 1..Len(w) |-> IF i = 1 THEN UpperChar(w[i]) ELSE w[i]],
      [i \in 1..Len(w) |-> IF i % 2 = 0 THEN UpperChar(w[i]) ELSE w[i]],
      [i \in 1..Len(w) |-> IF w[i] = "i" THEN "U+0130" ELSE UpperChar(w[i])] }

Paddings == { <<>>, <<" ">>, <<"\t", "\n">>, <<"\r", "U+00A0">>, <<"x">> }

LevelTexts ==
    { pre \o v \o post :
        pre \in Paddings, post \in Paddings,
        v \in UNION {LetterCases(w) : w \in LevelWords} }
      \cup SeqsUpTo({"i", "N", "f", "O", " "}, MaxText)

InitParse ==
    /\ osEnv = QuietEnv
    /\ cfg = NoConfig
    /\ applied = {}
    /\ newPc = "idle"
    /\ handlers = <<>>
    /\ out = <<>>
    /\ wBroken = FALSE
    /\ last = NoCall
    /\ seen = {}
    /\ sink = NoSink
    /\ sinkLog = <<>>
    /\ cleared = {}
    /\ born = <<>>
    /\ mutex = NoLocks
    /\ gor = AllIdle
    /\ ncalls = 0
    /\ input \in LevelTexts
    /\ result = NoResult
    /\ held = <<>>

CallParseLevel ==
    /\ ~result.done
    /\ result' = [done |-> TRUE, level |-> ParseLevel(input)]
    /\ UNCHANGED <<input, held, cfgVars, chainVars, sinkVars, born, procVars>>

NextParse == CallParseLevel

SpecParse == InitParse /\ [][NextParse]_vars

(* Source locations: every chain shape with the flag set and unset. *)

InitSource ==
    \E c \in BufferConfigs(Envs, {LevelInfo}, {<<>>, <<KeyRequestID>>},
                           {ColorNil, ColorOn, ColorOff}), addSource \in BOOLEAN :
        InitBuilt([c EXCEPT !.addSource = addSource])

NextSource ==
    \E level \in Levels : LoggerLog(1, SampleCtx, level, MsgOf(level), <<MethodGet>>)

SpecSource == InitSource /\ [][NextSource]_vars

(* Group scoping: two loggers built alike except for the environment, one  *)
(* on the colorized renderer and one on the JSON encoder; the same         *)
(* derivations and the same log call are made on both.  Loggers 2k-1 and   *)
(* 2k are the two of a pair.                                               *)

ColorConfig ==
    [env |-> EnvDevelopment, level |-> LevelInfo, output |-> Buffer,
     contextKeys |-> <<>>, addSource |-> FALSE, useColor |-> ColorOn]

InitScope ==
    /\ osEnv = QuietEnv
    /\ cfg = ColorConfig
    /\ applied = {"WithEnv", "WithLevel", "WithOutput", "WithContextKeys", "WithColor"}
    /\ newPc = "built"
    /\ handlers = <<createHandler(ColorConfig, osEnv),
                    createHandler([ColorConfig EXCEPT !.env = EnvProduction,
                                                      !.useColor = ColorOff], osEnv)>>
    /\ born = <<View(handlers[1]), View(handlers[2])>>
    /\ sink = NoSink
    /\ sinkLog = <<>>
    /\ cleared = {}
    /\ mutex = NoLocks
    /\ gor = AllIdle
    /\ ncalls = 0
    /\ input = <<>>
    /\ result = NoResult
    /\ held = <<>>
    /\ out = <<>>
    /\ wBroken = FALSE
    /\ last = NoCall
    /\ seen = {}

(* logger.With on the newest pair *)
PairWith(attrs) ==
    /\ newPc = "built"
    /\ attrs # <<>>
    /\ LET n == Len(handlers) IN
       handlers' = WithAttrs(WithAttrs(handlers, n - 1, attrs), n, attrs)
    /\ born' = born \o <<View(handlers'[Len(handlers) + 1]),
                          View(handlers'[Len(handlers) + 2])>>
    /\ UNCHANGED <<fnVars, cfgVars, out, wBroken, last, seen, sinkVars, procVars>>

(* logger.WithGroup on the newest pair; for the empty name slog.Logger     *)
(* returns itself, so the new logger wraps the handler of the old one      *)
PairWithGroup(name) ==
    /\ newPc = "built"
    /\ LET n == Len(handlers) IN
       handlers' = IF name = ""
                   THEN handlers \o <<handlers[n - 1], handlers[n]>>
                   ELSE WithGroup(WithGroup(handlers, n - 1, name), n, name)
    /\ born' = born \o <<View(handlers'[Len(handlers) + 1]),
                          View(handlers'[Len(handlers) + 2])>>
    /\ UNCHANGED <<fnVars, cfgVars, out, wBroken, last, seen, sinkVars, procVars>>

(* logger.Info on both loggers of the newest pair *)
PairLog(msg, attrs) ==
    /\ newPc = "built"
    /\ LET n == Len(handlers)
           r == Record(LevelInfo, msg, attrs)
           first == Handle(handlers[n - 1], NilCtx, r, wBroken, Len(Lines(out)) + 1)
           second == Handle(handlers[n], NilCtx, r, wBroken, Len(Lines(out)) + 2) IN
       /\ out' = out \o first.writes \o second.writes
       /\ last' = [op |-> "Handle", logger |-> n, level |-> LevelInfo,
                   enabled |-> TRUE, ctx |-> NilCtx, rec |-> r,
                   delegated |-> second.delegated, given |-> second.given,
                   err |-> second.err,
                   wrote |-> second.writes, broken |-> wBroken]
    /\ seen' = seen \cup {LevelInfo}
    /\ UNCHANGED <<fnVars, cfgVars, handlers, wBroken, sinkVars, born, procVars>>

NextScope ==
    \/ \E attrs \in {<<Attr("service", StringValue("api"))>>,
                      <<GroupAttr("request", <<MethodGet>>)>>} :
          /\ Len(handlers) <= 2 * MaxChain
          /\ out = <<>>
          /\ PairWith(attrs)
    \/ \E name \in {"", "svc"} :
          /\ Len(handlers) <= 2 * MaxChain
          /\ out = <<>>
          /\ PairWithGroup(name)
    \/ \E attrs \in {<<>>, <<MethodGet>>, <<GroupAttr("request", <<MethodGet>>)>>} :
          /\ out = <<>>
          /\ PairLog("info message", attrs)

SpecScope == InitScope /\ [][NextScope]_vars

(* Context values through derived loggers, on every chain shape. *)

RequestCtxs ==
    { NilCtx,
      Ctx([k \in {KeyRequestID} |-> StringValue("req-123")]),
      Ctx([k \in {KeyRequestID, KeyTraceID} |->
              IF k = KeyRequestID THEN StringValue("") ELSE StringValue("trace-456")]),
      Ctx([k \in {KeyRequestID, KeyTraceID} |->
              IF k = KeyRequestID THEN StringValue("req-123") ELSE StringValue("trace-456")]),
      Ctx([k \in {KeyRequestID, KeyUserID} |->
              IF k = KeyRequestID THEN IntValue("42") ELSE StringValue("user-abc")]) }

InitOnce ==
    \E c \in BufferConfigs(Envs, {LevelInfo}, KeyLists, {ColorNil, ColorOn, ColorOff}) :
        InitBuilt(c)

NextOnce ==
    \/ /\ Len(handlers) <= MaxChain
       /\ out = <<>>
       /\ LoggerWith(Len(handlers), <<Attr("service", StringValue("api"))>>)
    \/ /\ Len(handlers) <= MaxChain
       /\ out = <<>>
       /\ LoggerWithGroup(Len(handlers), "request")
    \/ \E i \in {1, Len(handlers)}, ctx \in RequestCtxs :
          /\ out = <<>>
          /\ LoggerLog(i, ctx, LevelInfo, "context message", <<MethodGet>>)

SpecOnce == InitOnce /\ [][NextOnce]_vars

(* Records through the injector: every context, key list and unused        *)
(* capacity of the record.                                                 *)

InitCow ==
    \E c \in BufferConfigs({EnvProduction, EnvStaging}, {LevelInfo}, KeyLists,
                           {ColorNil, ColorOff}) : InitBuilt(c)

NextCow ==
    \E ctx \in Ctxs, attrs \in {<<>>, <<MethodGet>>}, spare \in 0..MaxSpare :
        /\ out = <<>>
        /\ LoggerLogCap(1, ctx, LevelInfo, "context message", attrs, spare)

SpecCow == InitCow /\ [][NextCow]_vars

(* The capture sink called from several goroutines.  With and Clear hold   *)
(* the lock from their first statement to their return.                    *)

SinkLockFree == \A m \in DOMAIN mutex : mutex[m] = 0

NextSinkRace ==
    \/ \E g \in Goroutines, i \in 1..MaxSinkLoggers, level \in Levels :
          ncalls < MaxCalls /\ SinkCall(g, i, level, <<MsgOf(level)>>, <<>>)
    \/ \E g \in Goroutines : SinkLock(g)
    \/ \E g \in Goroutines : SinkLoad(g)
    \/ \E g \in Goroutines : SinkStore(g)
    \/ \E g \in Goroutines : SinkUnlock(g)
    \/ /\ SinkLockFree
       /\ Len(sink.loggers) < MaxSinkLoggers
       /\ SinkWith(1, ServiceApi)
    \/ /\ SinkLockFree
       /\ sinkLog # <<>>
       /\ SinkClear(1)

SpecSinkRace == InitSink /\ [][NextSinkRace]_vars

(* A test that keeps what Entries returned, edits it, and goes on using    *)
(* the sink.                                                               *)

UserArgs == <<StringValue("user"), StringValue("u1")>>

NextSnapshot ==
    \/ \E i \in 1..MaxSinkLoggers, args \in {<<>>, UserArgs} :
          SinkCalls < MaxLogCalls /\ SinkLogCall(i, LevelInfo, <<MsgOf(LevelInfo)>>, args)
    \/ /\ Len(sink.loggers) < MaxSinkLoggers
       /\ SinkCalls = 0
       /\ SinkWith(1, ServiceApi)
    \/ /\ Len(sink.loggers) < MaxSinkLoggers
       /\ SinkCalls = 0
       /\ SinkWithGroup(1, "request")
    \/ sinkLog # <<>> /\ held # <<>> /\ SinkClear(1)
    \/ \E i \in 1..MaxSinkLoggers : held = <<>> /\ SinkEntries(i)
    \/ HeldSetEntry(1, ZeroEntry)
    \/ \E k \in 1..MaxLogCalls : HeldPutAttr(k, "user", StringValue("edited"))

SpecSnapshot == InitSink /\ [][NextSnapshot]_vars

(* A program that logs through a colorized chain and through a capture     *)
(* sink from several goroutines, and queries the sink meanwhile.  New      *)
(* made the renderer's mutex, NewTestLogger the sink's.  The goroutine     *)
(* scheduler runs every goroutine that can run; sync.Mutex hands the lock  *)
(* to a waiter that has waited long (starvation mode), so a goroutine      *)
(* that finds the mutex free again and again does get it.                  *)

InitLive ==
    /\ osEnv = QuietEnv
    /\ cfg = ColorConfig
    /\ applied = {"WithEnv", "WithLevel", "WithOutput", "WithContextKeys", "WithColor"}
    /\ newPc = "built"
    /\ handlers = <<createHandler(ColorConfig, osEnv)>>
    /\ born = <<View(handlers[1])>>
    /\ sink = [NewTestLogger EXCEPT !.loggers[1].mu = 2]
    /\ sinkLog = <<>>
    /\ cleared = {}
    /\ mutex = NoLocks
    /\ gor = AllIdle
    /\ ncalls = 0
    /\ input = <<>>
    /\ result = NoResult
    /\ held = <<>>
    /\ out = <<>>
    /\ wBroken = FALSE
    /\ last = NoCall
    /\ seen = {}

(* the goroutines inside With or WithGroup of the sink *)
Deriving == {g \in Goroutines : gor[g].op \in {"With", "WithGroup"}}

(* the calls made so far that add to the state: handles derived, records  *)
(* logged                                                                  *)
Growth == (Len(handlers) - 1) + (Len(sink.loggers) - 1) + Cardinality(Deriving) + ncalls

(* goroutine g uses the g-th of n handles when it exists, else the root *)
HandleOf(g, n) == IF g <= n THEN g ELSE 1

InfoWords == <<"info message">>

NextLive ==
    \/ \E g \in Goroutines :
          /\ Growth < MaxGrowth
          /\ HandleCall(g, HandleOf(g, Len(handlers)), NilCtx, LevelInfo, "info message", <<>>)
    \/ \E g \in Goroutines : HandleLock(g)
    \/ \E g \in Goroutines : HandleWrite(g)
    \/ \E g \in Goroutines : HandleUnlock(g)
    \/ /\ Growth < MaxGrowth
       /\ \A g \in Goroutines : gor[g].pc = "idle"
       /\ LoggerWithGroup(1, "request")
    \/ \E g \in Goroutines :
          /\ Growth < MaxGrowth
          /\ SinkCall(g, HandleOf(g, Len(sink.loggers)), LevelInfo, InfoWords, <<>>)
    \/ \E g \in Goroutines : SinkLock(g)
    \/ \E g \in Goroutines : SinkLoad(g)
    \/ \E g \in Goroutines : SinkStore(g)
    \/ \E g \in Goroutines : SinkUnlock(g)
    \/ \E g \in Goroutines :
          /\ Growth < MaxGrowth
          /\ SinkOpCall(g, 1, "With", "", ServiceApi)
    \/ \E g \in Goroutines :
          /\ Growth < MaxGrowth
          /\ SinkOpCall(g, 1, "WithGroup", "request", <<>>)
    \/ \E g \in Goroutines, op \in SinkOps \ {"With", "WithGroup"} :
          SinkOpCall(g, HandleOf(g, Len(sink.loggers)), op, "", <<>>)
    \/ \E g \in Goroutines : SinkOpLock(g)
    \/ \E g \in Goroutines : SinkOpReturn(g)

(* Lock() returning to goroutine g *)
LockStep(g) == HandleLock(g) \/ SinkLock(g) \/ SinkOpLock(g)

(* a statement of goroutine g between Lock() and its return *)
RunStep(g) ==
    \/ HandleWrite(g) \/ HandleUnlock(g)
    \/ SinkLoad(g) \/ SinkStore(g) \/ SinkUnlock(g)
    \/ SinkOpReturn(g)

FairLive == \A g \in Goroutines : SF_vars(LockStep(g)) /\ WF_vars(RunStep(g))

SpecLive == InitLive /\ [][NextLive]_vars /\ FairLive

----------------------------------------------------------------------------
(* Properties *)

MinLevel == cfg.level

LineLevels(o) == {Lines(o)[k].level : k \in 1..Len(Lines(o))}

(* C1: a record of severity s reaches the output iff s >= the minimum     *)
(* severity the chain was built with, for every chain shape and every      *)
(* logger derived from it; no text of a filtered record is written; the    *)
(* injector's Enabled equals its child's.                                  *)
C1_SeverityFilter ==
    newPc = "built" =>
        /\ \A i \in DOMAIN handlers, s \in Levels :
              /\ Enabled(handlers[i], s) <=> s >= MinLevel
              /\ handlers[i].kind = "ctx" =>
                    Enabled(handlers[i], s) = Enabled(handlers[i].inner, s)
        /\ LineLevels(out) = {s \in seen : s >= MinLevel}
        /\ \A k \in DOMAIN out, s \in Levels :
              s < MinLevel => out[k].text # MsgOf(s)
        /\ last.op = "Handle" => last.level >= MinLevel /\ last.wrote # <<>>
        /\ last.op = "filtered" => last.level < MinLevel /\ last.wrote = <<>>

(* Debug, Info, Warn, Error logged through a wrapped chain at Warn: the    *)
(* output holds the Warn and the Error line.                               *)
C1_Witness ==
    /\ newPc = "built"
    /\ MinLevel = LevelWarn
    /\ handlers[1].kind = "ctx"
    /\ seen = Levels
    /\ Len(Lines(out)) = 2
    /\ Lines(out)[1].text = "warn message"
    /\ Lines(out)[2].text = "error message"

(* The attributes the claim expects the injector to add: one per listed    *)
(* key, in list order, whose context value is a non-empty string.          *)
ExpectedCtxKeys(keys, ctx) ==
    SelectSeq(keys, LAMBDA k : /\ k \in DOMAIN ctx.vals
                               /\ ctx.vals[k].t = "string"
                               /\ ctx.vals[k].v # "")

ExpectedCtxAttrs(keys, ctx) ==
    LET ks == ExpectedCtxKeys(keys, ctx) IN
    [n \in 1..Len(ks) |-> Attr(ks[n], StringValue(ctx.vals[ks[n]].v))]

(* C2: the record the injector delegates is the record it received plus    *)
(* exactly the pairs (key, ctx[key]), in key-list order, of the listed     *)
(* keys whose context value is a non-empty string; the machine-readable    *)
(* and plain-text lines carry them as top-level fields.                    *)
C2_ContextInjection ==
    (last.op = "Handle" /\ handlers[last.logger].kind = "ctx") =>
        LET h == handlers[last.logger]
            extra == ExpectedCtxAttrs(h.contextKeys, last.ctx) IN
        /\ last.delegated = [last.rec EXCEPT !.attrs = last.rec.attrs \o extra]
        /\ \A n \in 1..Len(last.delegated.attrs) :
              LET a == last.delegated.attrs[n] IN
              n > Len(last.rec.attrs) =>
                  /\ a.key \in {h.contextKeys[j] : j \in 1..Len(h.contextKeys)}
                  /\ a.val.t = "string" /\ a.val.v # ""
        /\ ~last.broken =>
              /\ Len(last.wrote) = 1
              /\ \A n \in 1..Len(extra) :
                    last.wrote[1].attrs[Len(last.rec.attrs) + n] =
                        [key |-> extra[n].key, val |-> extra[n].val.v]

C2_Witness ==
    /\ last.op = "Handle"
    /\ handlers[last.logger].kind = "ctx"
    /\ Leaf(handlers[last.logger]).kind = "json"
    /\ handlers[last.logger].contextKeys = <<KeyRequestID, KeyTraceID>>
    /\ KeyUserID \in DOMAIN last.ctx.vals
    /\ last.rec.attrs = <<>>
    /\ Len(last.wrote) = 1
    /\ last.wrote[1].attrs = <<[key |-> "request_id", val |-> "req-123"],
                               [key |-> "trace_id", val |-> "trace-456"]>>

(* C6: shouldUseColor is the override when one is set; otherwise false in  *)
(* Production; otherwise true iff the output is standard output or         *)
(* standard error and that stream is a terminal.                           *)
C6_UseColorTable ==
    newPc # "idle" =>
        shouldUseColor(cfg, osEnv) =
            CASE cfg.useColor = ColorOn -> TRUE
              [] cfg.useColor = ColorOff -> FALSE
              [] OTHER ->
                    /\ cfg.env # EnvProduction
                    /\ \/ cfg.output = Stdout /\ osEnv.stdoutTTY
                       \/ cfg.output = Stderr /\ osEnv.stderrTTY

(* color forced on under Production *)
C6_Witness ==
    /\ newPc = "built"
    /\ cfg.env = EnvProduction
    /\ cfg.useColor = ColorOn
    /\ shouldUseColor(cfg, osEnv)

(* C7: the leaf createHandler builds is the JSON leaf iff the environment  *)
(* is Production, whatever the other fields; otherwise the colorized       *)
(* renderer iff shouldUseColor, and the plain-text leaf otherwise.         *)
C7_EncoderByEnvironment ==
    newPc = "built" =>
        /\ Len(handlers) >= 1
        /\ Injectors(handlers[1]) \in {0, 1}
        /\ Leaf(handlers[1]).kind \in {"json", "text", "color"}
        /\ Leaf(handlers[1]).kind = "json" <=> cfg.env = EnvProduction
        /\ cfg.env # EnvProduction =>
              (Leaf(handlers[1]).kind = "color" <=> shouldUseColor(cfg, osEnv))

(* Production with color forced on still gets the JSON leaf *)
C7_Witness ==
    /\ newPc = "built"
    /\ cfg.env = EnvProduction
    /\ cfg.useColor = ColorOn
    /\ Leaf(handlers[1]).kind = "json"

(* C8: a logger built with no explicit level (no WithLevel, no XLOG_LEVEL) *)
(* has minimum severity Info in Production and Debug in Staging and        *)
(* Development, however the environment was chosen.                        *)
C8_DefaultLevelFollowsEnv ==
    (newPc = "built" /\ "WithLevel" \notin applied /\ osEnv.XLOG_LEVEL = <<>>) =>
        Leaf(handlers[1]).level =
            (IF cfg.env = EnvProduction THEN LevelInfo ELSE LevelDebug)

(* C9: a Handle call whose write to the output sink fails returns a        *)
(* non-nil error, for every leaf and through every wrapper.                *)
C9_WriteFailurePropagated ==
    (last.op = "Handle" /\ last.broken) => last.err # "nil"

SeqNumbers(es) == [k \in 1..Len(es) |-> es[k].seq]

(* C3: an entry logged through any handle of a family is observable        *)
(* through every other handle, whatever the With / WithGroup derivations:  *)
(* Len, Count, HasEntry, HasEntryWithAttr and Entries agree on all handles *)
(* and report every entry logged since the last Clear.                     *)
C3_SharedStore ==
    \A i \in DOMAIN sink.loggers :
        /\ SeqNumbers(Entries(sink, i)) = SeqNumbers(sinkLog)
        /\ \A j \in {1, Len(sink.loggers)} :
              /\ Entries(sink, i) = Entries(sink, j)
              /\ SinkLen(sink, i) = SinkLen(sink, j)
              /\ \A l \in Levels :
                    /\ Count(sink, i, l) = Count(sink, j, l)
                    /\ HasEntry(sink, i, l, <<"child">>) = HasEntry(sink, j, l, <<"child">>)
                    /\ HasEntryWithAttr(sink, i, l, <<"child">>, "service", StringValue("api"))
                         = HasEntryWithAttr(sink, j, l, <<"child">>, "service", StringValue("api"))

(* child = root.With("service", "api"); child.Info("child message") *)
C3_Witness ==
    /\ Len(sink.loggers) >= 2
    /\ SinkView(sink, 1).attrs = EmptyMap
    /\ HasEntryWithAttr(sink, 1, LevelInfo, <<"child">>, "service", StringValue("api"))

(* C4: after Clear through any handle, Len is 0 and Entries is empty on    *)
(* every handle; entries logged afterwards are again visible through all   *)
(* handles; no entry logged before the Clear reappears.                    *)
C4_ClearShared ==
    \A i \in DOMAIN sink.loggers :
        /\ sinkLog = <<>> => SinkLen(sink, i) = 0 /\ Entries(sink, i) = <<>>
        /\ \A k \in 1..Len(Entries(sink, i)) : Entries(sink, i)[k].seq \notin cleared
        /\ SinkLen(sink, i) = Len(sinkLog)
        /\ \A k \in 1..Len(sinkLog) :
              \E e \in 1..SinkLen(sink, i) : Entries(sink, i)[e].seq = sinkLog[k].seq

(* two entries cleared, one logged afterwards: it sits in the array before *)
(* a cleared one and is the only entry either handle reports               *)
C4_Witness ==
    /\ Len(sink.loggers) >= 2
    /\ cleared # {}
    /\ SinkLen(sink, 1) = 1
    /\ SinkLen(sink, 2) = 1
    /\ LET c == sink.stores[sink.loggers[1].entries] IN
       Len(c.arr) >= 2 /\ c.arr[2].seq \in cleared

AttrFields(chunks) ==
    LET toks == SelectSeq(chunks, LAMBDA c : c.part = "attr") IN
    [k \in 1..Len(toks) |-> toks[k].attrs[1]]

(* C5: With / WithGroup never change the receiver, on the capture sink and *)
(* on the colorized renderer: every handle keeps the attributes and group  *)
(* path it was created with, whatever is derived from it or beside it, and *)
(* what is logged through it carries exactly those.                        *)
C5_DeriveKeepsReceiver ==
    /\ \A i \in DOMAIN sink.loggers : SinkView(sink, i) = born[i]
    /\ \A i \in DOMAIN handlers : View(handlers[i]) = born[i]
    /\ \A q \in DOMAIN sinkLog, k \in 1..Len(sinkLog) :
          LET e == Entries(sink, 1)[k] IN
          (e.seq = sinkLog[q].seq /\ sinkLog[q].args = <<>>) =>
              sink.maps[e.Attrs] = born[sinkLog[q].by].attrs
    /\ (last.op = "Handle" /\ ~last.broken /\ handlers[last.logger].kind = "color") =>
          AttrFields(last.wrote) =
              writeAttrs(born[last.logger].attrs, born[last.logger].groups)
                \o writeAttrs(last.rec.attrs, born[last.logger].groups)

(* two children derived from the root with different attributes, then an   *)
(* entry logged through the root: it carries neither                       *)
C5_Witness ==
    /\ Len(sink.loggers) = 3
    /\ SinkView(sink, 2).attrs # EmptyMap
    /\ SinkView(sink, 3).attrs # EmptyMap
    /\ DOMAIN SinkView(sink, 2).attrs # DOMAIN SinkView(sink, 3).attrs
    /\ Len(sinkLog) = 1
    /\ sinkLog[1].by = 1
    /\ LET e == Entries(sink, 1)[1] IN
       /\ e.Attrs > sink.loggers[2].attrs
       /\ e.Attrs > sink.loggers[3].attrs
       /\ sink.maps[e.Attrs] = EmptyMap

ActiveCalls == {gor[g].call : g \in {x \in Goroutines : gor[x].pc = "writing"}}

(* C10: whatever the goroutines and the renderers derived from one         *)
(* colorized renderer, the writer receives a concatenation of complete     *)
(* lines: the writes of one record are contiguous, from its timestamp to   *)
(* its newline; only the record of the goroutine holding the lock may be   *)
(* unfinished, at the end.                                                 *)
C10_LineAtomicity ==
    /\ out # <<>> => out[1].part = "time"
    /\ \A a \in DOMAIN out :
          /\ out[a].part = "time" <=> (a = 1 \/ out[a - 1].call # out[a].call)
          /\ out[a].part = "nl" =>
                (a = Len(out) \/ out[a + 1].call # out[a].call)
          /\ out[a].part # "nl" =>
                \/ a < Len(out) /\ out[a + 1].call = out[a].call
                \/ a = Len(out) /\ out[a].call \in ActiveCalls
          /\ \A c \in DOMAIN out :
                (a < c /\ out[a].call = out[c].call) =>
                    \A b \in a..c : out[b].call = out[a].call
    /\ Cardinality({g \in Goroutines : gor[g].pc = "writing"}) <= 1

(* one goroutine in the middle of a line of the root renderer, another at  *)
(* the lock with a record for a derived renderer                           *)
C10_Witness ==
    \E g, w \in Goroutines :
        /\ gor[g].pc = "writing"
        /\ gor[g].pos > 0 /\ gor[g].pos < Len(gor[g].line)
        /\ gor[w].pc = "waiting"
        /\ gor[g].logger # gor[w].logger
        /\ handlers[gor[g].logger].mu = handlers[gor[w].logger].mu

(* the leaves of an attribute list, each under the path of the groups      *)
(* around it                                                               *)
RECURSIVE FlatLeaves(_, _)
FlatLeaves(as, path) ==
    IF as = <<>> THEN <<>>
    ELSE LET a == Head(as)
             rest == FlatLeaves(Tail(as), path) IN
         IF a = ZeroAttr THEN rest
         ELSE IF a.val.t = "group" THEN FlatLeaves(a.g, Append(path, a.key)) \o rest
         ELSE <<[path |-> Append(path, a.key), val |-> a.val.v]>> \o rest

RECURSIVE DotJoin(_)
DotJoin(path) ==
    IF Len(path) = 1 THEN path[1] ELSE path[1] \o "." \o DotJoin(Tail(path))

FlatFields(as, path) ==
    LET ls == FlatLeaves(as, path) IN
    [k \in 1..Len(ls) |-> [key |-> DotJoin(ls[k].path), val |-> ls[k].val]]

(* C11: the colorized renderer writes one token per leaf attribute, keyed  *)
(* by the dot-joined path of the handler's groups, then the nested groups  *)
(* around the leaf, then its own key; groups write no token of their own,  *)
(* a group's name qualifies its members only (not its later siblings nor   *)
(* what follows it), and zero attributes are skipped, at every depth.      *)
C11_GroupFlattening ==
    (last.op = "Handle" /\ ~last.broken /\ handlers[last.logger].kind = "color") =>
        LET h == handlers[last.logger] IN
        AttrFields(last.wrote) =
            FlatFields(h.attrs, h.groups) \o FlatFields(last.rec.attrs, h.groups)

(* under two handler groups, a record whose group holds an inner group     *)
(* followed by a leaf, and is itself followed by a leaf                    *)
C11_Witness ==
    /\ last.op = "Handle"
    /\ Len(handlers[last.logger].groups) = 2
    /\ Len(last.rec.attrs) = 2
    /\ LET a == last.rec.attrs[1] IN
       /\ a.val.t = "group"
       /\ Len(a.g) = 2
       /\ a.g[1].val.t = "group"
       /\ a.g[1].g = <<MethodGet>>
       /\ a.g[2] = MethodGet
    /\ Len(AttrFields(last.wrote)) = 3

(* the attribute map of an entry: the accumulated map, then each pair      *)
(* (args[2i-1], args[2i]) with a string key under the group prefix, the    *)
(* last pair of a key winning                                              *)
ExpectedEntryAttrs(base, args, group) ==
    LET prefix == IF group # "" THEN group \o "." ELSE ""
        pairs == {i \in 1..(Len(args) \div 2) : args[2 * i - 1].t = "string"}
        keyOf(i) == prefix \o args[2 * i - 1].v
        keys == {keyOf(i) : i \in pairs}
        lastOf(x) == CHOOSE i \in pairs :
                        keyOf(i) = x /\ \A j \in pairs : keyOf(j) = x => j <= i IN
    [x \in DOMAIN base \cup keys |->
        IF x \in keys THEN args[2 * lastOf(x)] ELSE base[x]]

(* C12: each log call on the capture sink appends exactly one entry, with  *)
(* the call's severity and message and with the handle's accumulated       *)
(* attributes overlaid by the call's pairs, each pair key behind the group *)
(* prefix; a pair with a non-string key and a trailing unpaired argument   *)
(* are dropped; a pair logged through an ungrouped handle is found by      *)
(* HasEntryWithAttr.                                                       *)
C12_EntryConstruction ==
    sink # NoSink =>
        /\ SinkLen(sink, 1) = Len(sinkLog)
        /\ \A k \in 1..Len(sinkLog) :
              LET c == sinkLog[k]
                  e == Entries(sink, 1)[k] IN
              /\ e.Level = c.level
              /\ e.Message = c.msg
              /\ sink.maps[e.Attrs] =
                    ExpectedEntryAttrs(born[c.by].attrs, c.args, born[c.by].groups)
              /\ (born[c.by].groups = "" /\ Len(c.args) = 2 /\ c.args[1].t = "string") =>
                    HasEntryWithAttr(sink, c.by, c.level, c.msg, c.args[1].v, c.args[2])

(* through a grouped handle that accumulated service=api: a pair with a    *)
(* non-string key dropped, the pair after it kept under the prefix         *)
C12_Witness ==
    /\ Len(sinkLog) = 1
    /\ born[sinkLog[1].by].groups = "request"
    /\ "service" \in DOMAIN born[sinkLog[1].by].attrs
    /\ Len(sinkLog[1].args) = 4
    /\ sinkLog[1].args[1].t = "int"
    /\ DOMAIN sink.maps[Entries(sink, 1)[1].Attrs] = {"service", "request.k"}

(* the spellings of a lower-case letter that lower case maps onto it *)
Spellings(c) == {c, UpperChar(c)} \cup (IF c = "i" THEN {"U+0130"} ELSE {})

(* s is the word w in some letter case, between runs of white space *)
Spells(s, w) ==
    \E a \in 0..Len(s) :
        /\ a + Len(w) <= Len(s)
        /\ \A i \in 1..a : IsSpace(s[i])
        /\ \A i \in (a + Len(w) + 1)..Len(s) : IsSpace(s[i])
        /\ \A j \in 1..Len(w) : s[a + j] \in Spellings(w[j])

(* C13: ParseLevel returns a level for every text: Debug, Info, Warn or    *)
(* Error when the text is "debug", "info", "warn" / "warning" or "error"   *)
(* in any letter case between white space, and Info for every other text,  *)
(* the empty one included.                                                 *)
C13_ParseLevelTotal ==
    result.done =>
        /\ result.level \in Levels
        /\ result.level =
              IF Spells(input, <<"d", "e", "b", "u", "g">>) THEN LevelDebug
              ELSE IF Spells(input, <<"w", "a", "r", "n">>)
                      \/ Spells(input, <<"w", "a", "r", "n", "i", "n", "g">>)
                   THEN LevelWarn
              ELSE IF Spells(input, <<"e", "r", "r", "o", "r">>) THEN LevelError
              ELSE LevelInfo

(* "warning" in mixed case between white space *)
C13_Witness ==
    /\ result.done
    /\ result.level = LevelWarn
    /\ Len(input) = 11
    /\ input[1] = "\t"
    /\ input[4] = "A"

(* C14: a logger built for Staging or Development with no color override   *)
(* has the colorized renderer as its leaf, and a logger built for          *)
(* Production with no color override has the JSON encoder.                 *)
C14_NonProductionColored ==
    (newPc = "built" /\ cfg.useColor = ColorNil) =>
        /\ cfg.env \in {EnvStaging, EnvDevelopment} => Leaf(handlers[1]).kind = "color"
        /\ cfg.env = EnvProduction => Leaf(handlers[1]).kind = "json"

(* some write of the line of a call carries a source location *)
LineHasSource(call) == \E k \in DOMAIN out : out[k].call = call /\ out[k].source # ""

(* C15: every entry written by a logger configured with WithSource(true)   *)
(* carries a source location and no entry written by one configured with   *)
(* WithSource(false) does, whichever leaf createHandler selected.          *)
C15_SourceLocation ==
    newPc = "built" =>
        \A k \in DOMAIN out : LineHasSource(out[k].call) <=> cfg.addSource

(* the attribute keys written for a call *)
KeysOfCall(call) ==
    UNION {{out[k].attrs[a].key : a \in DOMAIN out[k].attrs} :
              k \in {x \in DOMAIN out : out[x].call = call
                                          /\ out[x].part \in {"attr", "line"}}}

(* C16: after the same With / WithGroup derivations, the colorized         *)
(* renderer writes a record under the same dot-qualified attribute keys as *)
(* the JSON encoder does: an attribute added by With is qualified by the   *)
(* groups open when it was added only.                                     *)
C16_GroupScoping ==
    (newPc = "built" /\ Len(handlers) >= 2 /\ handlers[1].kind = "color"
        /\ handlers[2].kind = "json" /\ Len(Lines(out)) = 2) =>
        KeysOfCall(1) = KeysOfCall(2)

(* the fields of the chunks of one call, context tokens included *)
RECURSIVE AllFields(_)
AllFields(chunks) ==
    IF chunks = <<>> THEN <<>> ELSE Head(chunks).attrs \o AllFields(Tail(chunks))

NoDuplicates(q) == \A a, b \in DOMAIN q : q[a] = q[b] => a = b

(* how many written fields carry the value v *)
TimesWritten(chunks, v) ==
    Cardinality({k \in DOMAIN AllFields(chunks) : AllFields(chunks)[k].val = v})

(* C17: whatever was derived, a colorized leaf is never inside an          *)
(* injector, a JSON or text leaf is inside exactly one injector holding    *)
(* the configured key list when that list is non-empty and inside none     *)
(* when it is empty; and with a key list without duplicates each record    *)
(* written carries each listed, present, non-empty string context value    *)
(* exactly once and no other context value.                                *)
C17_ExtractedOnce ==
    newPc = "built" =>
        /\ \A i \in DOMAIN handlers :
              LET h == handlers[i] IN
              /\ Leaf(h).kind = "color" =>
                    Injectors(h) = 0 /\ h.contextKeys = cfg.contextKeys
              /\ Leaf(h).kind \in {"json", "text"} =>
                    /\ Injectors(h) = IF cfg.contextKeys # <<>> THEN 1 ELSE 0
                    /\ h.kind = "ctx" => h.contextKeys = cfg.contextKeys
        /\ (last.op = "Handle" /\ ~last.broken /\ NoDuplicates(cfg.contextKeys)) =>
              \A key \in {KeyRequestID, KeyTraceID, KeyUserID} :
                 LET v == CtxValue(last.ctx, key)
                     listed == \E k \in DOMAIN cfg.contextKeys : cfg.contextKeys[k] = key IN
                 (v.t = "string" /\ v.v # "") =>
                     TimesWritten(last.wrote, v.v) = IF listed THEN 1 ELSE 0

(* a record logged with both identifiers through a logger derived twice    *)
(* from a JSON chain configured with both keys                             *)
C17_Witness ==
    /\ last.op = "Handle"
    /\ last.logger = 3
    /\ Leaf(handlers[3]).kind = "json"
    /\ Len(cfg.contextKeys) = 2
    /\ NoDuplicates(cfg.contextKeys)
    /\ TimesWritten(last.wrote, "req-123") = 1
    /\ TimesWritten(last.wrote, "trace-456") = 1

(* C18: the injector leaves the record it was given as it was, the unused  *)
(* slots of its attribute array included (another holder of the record     *)
(* would append into them); what it collects goes to a copy; when it       *)
(* collects nothing (no context, no keys, no key with a non-empty string)  *)
(* it delegates the very record it received.                               *)
C18_CopyOnWrite ==
    (last.op = "Handle" /\ Leaf(handlers[last.logger]).kind \in {"json", "text"}) =>
        LET extra == ExpectedCtxAttrs(cfg.contextKeys, last.ctx) IN
        /\ last.given = last.rec
        /\ extra = <<>> => last.delegated = last.rec
        /\ extra # <<>> =>
              /\ last.delegated.attrs = last.rec.attrs \o extra
              /\ last.delegated.spare = <<>>

(* two attributes collected for a record whose array had room for them *)
C18_Witness ==
    /\ last.op = "Handle"
    /\ handlers[last.logger].kind = "ctx"
    /\ Len(last.rec.spare) = 2
    /\ Len(last.rec.attrs) = 1
    /\ Len(last.delegated.attrs) = 3
    /\ last.given.spare = <<ZeroAttr, ZeroAttr>>

(* C19: the colorized renderer writes, for each record, its timestamp, its *)
(* severity label, its message, then the context values in key-list order, *)
(* then the accumulated attributes in accumulation order, then the         *)
(* record's own attributes in record order, then one newline, and nothing  *)
(* after it.                                                               *)
C19_RenderOrder ==
    (last.op = "Handle" /\ ~last.broken /\ handlers[last.logger].kind = "color") =>
        LET h == handlers[last.logger]
            w == last.wrote
            ks == ExpectedCtxKeys(h.contextKeys, last.ctx)
            fs == FlatFields(h.attrs, h.groups) \o FlatFields(last.rec.attrs, h.groups) IN
        /\ Len(w) = 3 + Len(ks) + Len(fs) + 1
        /\ w[1].part = "time"
        /\ w[2].part = "level" /\ w[2].text = levelString(last.rec.level)
        /\ w[3].part = "msg" /\ w[3].text = last.rec.msg
        /\ \A n \in 1..Len(ks) :
              /\ w[3 + n].part = "ctx"
              /\ w[3 + n].attrs = <<[key |-> ks[n], val |-> last.ctx.vals[ks[n]].v]>>
        /\ \A n \in 1..Len(fs) :
              /\ w[3 + Len(ks) + n].part = "attr"
              /\ w[3 + Len(ks) + n].attrs = <<fs[n]>>
        /\ w[Len(w)].part = "nl"
        /\ \A a \in DOMAIN w : \A b \in DOMAIN w :
              (a < b /\ w[a].part = "attr") => w[b].part \in {"attr", "nl"}
        /\ SubSeq(out, Len(out) - Len(w) + 1, Len(out)) = w

(* both identifiers, an accumulated attribute and an attribute of the      *)
(* record on one line                                                      *)
C19_Witness ==
    /\ last.op = "Handle"
    /\ handlers[last.logger].kind = "color"
    /\ Len(last.wrote) = 8
    /\ last.wrote[4].part = "ctx" /\ last.wrote[4].attrs[1].key = KeyTraceID
    /\ last.wrote[5].part = "ctx" /\ last.wrote[5].attrs[1].key = KeyRequestID
    /\ last.wrote[6].attrs[1].val = "api"
    /\ last.wrote[7].attrs[1].val = "GET"

(* the goroutines between Lock and Unlock of a log call *)
InSinkLog == {g \in Goroutines : gor[g].pc \in {"sink locked", "sink loaded", "sink stored"}}

(* the calls in the lock order whose entry is not yet stored *)
Unstored == {g \in Goroutines : gor[g].pc \in {"sink locked", "sink loaded"}}

(* C20: log calls made concurrently through the handles of one capture     *)
(* sink lose no entry and filter none: the entries since the last Clear    *)
(* are those of the calls that took the lock since then, in lock order     *)
(* (the call holding the lock may not have stored its entry yet), each     *)
(* with the severity and message of its call; so, whenever the lock is     *)
(* free, Len() is the number of calls completed since the last Clear and   *)
(* the Counts of the four severities add up to it.                         *)
C20_NoLostEntries ==
    sink # NoSink =>
        /\ Cardinality(InSinkLog) <= 1
        /\ \A i \in DOMAIN sink.loggers :
              LET es == Entries(sink, i) IN
              /\ Len(es) = Len(sinkLog) - Cardinality(Unstored)
              /\ \A k \in 1..Len(es) :
                    /\ es[k].seq = sinkLog[k].seq
                    /\ es[k].Level = sinkLog[k].level
                    /\ es[k].Message = sinkLog[k].msg
              /\ Count(sink, i, LevelDebug) + Count(sink, i, LevelInfo)
                    + Count(sink, i, LevelWarn) + Count(sink, i, LevelError)
                    = SinkLen(sink, i)
              /\ SinkLockFree => SinkLen(sink, i) = Len(sinkLog)

(* one call has stored its entry and still holds the lock while another    *)
(* waits for it, through a derived handle                                  *)
C20_Witness ==
    /\ \E g \in Goroutines : gor[g].pc = "sink stored"
    /\ \E g \in Goroutines : gor[g].pc = "sink waiting" /\ gor[g].logger = 2
    /\ SinkLen(sink, 1) = 1

(* what a reader of the entries es finds in them, maps followed *)
Deep(S, es) ==
    [k \in 1..Len(es) |->
        [Level |-> es[k].Level, Message |-> es[k].Message,
         Attrs |-> IF es[k].Attrs = 0 THEN EmptyMap ELSE S.maps[es[k].Attrs]]]

(* the answers of the queries of handle i *)
QueryReport(S, i) ==
    [entries |-> Deep(S, Entries(S, i)),
     len |-> SinkLen(S, i),
     count |-> [l \in Levels |-> Count(S, i, l)],
     has |-> [l \in Levels |-> HasEntry(S, i, l, <<MsgOf(l)>>)],
     hasAttr |-> [l \in Levels, v \in {"u1", "edited"} |->
                     HasEntryWithAttr(S, i, l, <<MsgOf(l)>>, "user", StringValue(v))]]

QueryReports == [i \in DOMAIN sink.loggers |-> QueryReport(sink, i)]

(* a step of a sink operation that changes the sink: log, With, WithGroup, *)
(* Clear                                                                   *)
SinkOpStep ==
    \/ sinkLog' # sinkLog
    \/ cleared' # cleared
    \/ Len(sink'.loggers) # Len(sink.loggers)

(* C21: Entries() returns a defensive copy: what the caller reads in the   *)
(* slice it holds is unchanged by every later log, With, WithGroup and     *)
(* Clear on any handle, and editing the held slice or the attributes of a  *)
(* held entry changes no answer of Entries, HasEntry, HasEntryWithAttr,    *)
(* Count and Len on any handle.                                            *)
C21_DefensiveCopy ==
    [][IF SinkOpStep
       THEN Deep(sink, held)' = Deep(sink, held)
       ELSE QueryReports' = QueryReports]_vars

(* the fields of the written record that carry a context value under its   *)
(* bare key                                                                *)
BareCtxFields(chunks, key, v) ==
    {k \in DOMAIN AllFields(chunks) : AllFields(chunks)[k] = [key |-> key, val |-> v]}

(* C22: ambient context attributes are never group-qualified: whatever     *)
(* groups the logger was derived with, each listed context value that is   *)
(* a non-empty string is written under its bare key, on the colorized      *)
(* path and on the injector path in front of the JSON and text leaves.     *)
C22_ContextKeysBare ==
    (last.op = "Handle" /\ ~last.broken) =>
        LET ks == ExpectedCtxKeys(cfg.contextKeys, last.ctx) IN
        \A n \in 1..Len(ks) :
            BareCtxFields(last.wrote, ks[n], last.ctx.vals[ks[n]].v) # {}

(* the mutex the call of goroutine g locks *)
LockOf(g) ==
    IF gor[g].op = "Handle" THEN handlers[gor[g].logger].mu
    ELSE sink.loggers[gor[g].logger].mu

WaitingPcs == {"waiting", "sink waiting", "op waiting"}

HoldingPcs == {"writing", "sink locked", "sink loaded", "sink stored", "op locked"}

Busy(g) == gor[g].pc # "idle"

(* the call of g has returned and g holds no mutex *)
Returned(g) == gor[g].pc = "idle" /\ \A m \in DOMAIN mutex : mutex[m] # g

(* g has a step to take *)
CanStep(g) ==
    \/ gor[g].pc \in HoldingPcs
    \/ gor[g].pc \in WaitingPcs /\ mutex[LockOf(g)] = 0

(* no goroutine waits for a mutex it holds; a locked mutex is held by a    *)
(* call in progress on it; while calls are in progress one of them can     *)
(* take a step                                                             *)
LockDiscipline ==
    /\ \A g \in Goroutines :
          /\ gor[g].pc \in WaitingPcs => \A m \in DOMAIN mutex : mutex[m] # g
          /\ gor[g].pc = "idle" => \A m \in DOMAIN mutex : mutex[m] # g
          /\ gor[g].pc \in HoldingPcs =>
                \A m \in DOMAIN mutex : mutex[m] = g <=> m = LockOf(g)
    /\ (\E g \in Goroutines : Busy(g)) => \E g \in Goroutines : CanStep(g)

====
